---- MODULE Spec2Model ----
(***************************************************************************)
(* A model of ResolvCI (rxbryan/resolv-ci): the work claimer and insight   *)
(* loop of POST /api/graph-run, the outbox stager and dispatcher, the      *)
(* tool-calling loop of solveFailure and its anchor resolution.            *)
(*                                                                         *)
(* The specifications of the module, each over its own variables:          *)
(*   Spec         the graph-run trigger: claim, log download, the graph    *)
(*                (diagnose, solutions, actuator, knowledge), final status *)
(*   SpecAuth     the entry of both triggers: authorization, claim, batch  *)
(*   SpecStage    concurrent calls of stageReviewOutboxFromSolution        *)
(*   SpecOutbox   overlapping dispatch-outbox batches over staged rows     *)
(*   SpecDispatch one dispatch-outbox batch over staged rows               *)
(*   SpecComments the comments of one dispatched action                    *)
(*   SpecSolve    one solveFailure invocation: the tool loop and budgets   *)
(*   SpecAnchor   final snap and no-op detection of one change             *)
(*   SpecPolicy   validated changes, policy and review comments            *)
(*   SpecRetry    one downloadLogsZipWithRetry call: attempts and backoff  *)
(***************************************************************************)
EXTENDS Integers, Sequences, FiniteSets, TLC

(***************************************************************************)
(* Bounds of the model.                                                    *)
(***************************************************************************)
\* concurrent POST /api/graph-run requests
NumRuns == 2
\* build_failures rows, all `new` at the start
NumRecords == 2
\* concurrent callers of stageReviewOutboxFromSolution
NumStagers == 2
\* concurrent POST /api/dispatch-outbox requests (SpecOutbox)
NumBatches == 2
\* POST /api/dispatch-outbox requests (SpecDispatch)
NumDispatchers == 1
\* rows staged while the dispatcher runs
MaxRows == 2
\* rows whose status updates by the dispatcher may raise a database error
MaxFaultyRows == 1
\* tool calls in one AI message
MaxTurnCalls == 2
\* characters of the file, characters of hunk.after, and the largest line the
\* match hints resolve
MaxFileLen == 3
MaxAfterLen == 3
MaxAnchorLine == 2
\* changes of one solution
MaxChanges == 2
\* hunks of a patch, and the largest line of a hunk start or a comment
MaxHunks == 2
MaxDiffLine == 3
\* characters of the file and of match.original in the anchor resolution, and
\* the largest line guess of the model
MaxHayLen == 5
MaxNeedleLen == 2
MaxGuess == 2

(***************************************************************************)
(* Program constants.  Confidence is kept in percent (0.80 is 80).         *)
(***************************************************************************)
TAU == 80
MAX_LOOPS == 3
LOG_MAX_RETRIES == 3
LOG_RETRY_BASE_MS == 1000
\* ACTUATOR_MAX_COMMENTS and ACTUATOR_BODY_MAX are read from the environment
\* (defaults 12 and 18000); the model runs with a small configuration.
MAX_REVIEW_COMMENTS == 2
BODY_MAX_CHARS == 3

\* DISPATCH_BATCH_SIZE
DEFAULT_BATCH == 5

\* the length last_error is cut to, message.slice(0, 1000), in units of 250
\* characters
LAST_ERROR_CHARS == 4

\* SOL_MAX_TOOL_CALLS, SOL_MAX_PER_TOOL_CALLS (defaults 6 and 3), and
\* SOL_MAX_TOOL_MS, SOL_MAX_PER_TOOL_MS (defaults 10000 and 5000) in time units
\* of 2500 ms; the model runs with a small configuration.
MAX_TOOL_CALLS == 3
MAX_PER_TOOL_CALLS == 2
MAX_TOOL_MS == 4
MAX_PER_TOOL_MS == 2

Runs == 1..NumRuns
Records == 1..NumRecords
Stagers == 1..NumStagers
Batches == 1..NumBatches
Dispatchers == 1..NumDispatchers

\* tool names the model may ask for; the last one is none of the agent's tools
ToolNames == {"fetch_slice", "code_search", "read_file"}

Min(a, b) == IF a <= b THEN a ELSE b
Max(a, b) == IF a >= b THEN a ELSE b

VARIABLES
    \* ---- build_failures and the graph-run requests
    fstatus,        \* fstatus[r]: build_failures.status of row r
    rowLock,        \* rowLock[r]: the request holding the FOR UPDATE lock (0: none)
    pc,             \* pc[p]: where request p stands
    f,              \* f[p]: the row request p claimed (0: null)
    response,       \* response[p]: the HTTP response returned ("none": not yet)
    insight_loops,  \* graph channel insight_loops of p
    confidence,     \* graph channel confidence of p (-1: undefined)
    diagnoseRuns,   \* executions of the diagnose node by p
    solveRuns,      \* executions of the solutions node by p
    stageResult,    \* result of p's stageReviewOutboxFromSolution ("none": not called)
    fixRecs,        \* fix_recommendations rows: <<failure_id, head_sha>>
    authorization,  \* authorization[p]: the request's authorization header
    \* ---- outbound_actions
    outbox,         \* the rows in id order
    \* ---- callers of stageReviewOutboxFromSolution (SpecStage)
    stPc,           \* stPc[s]: "idle", "create" (before OutboundAction.create), "done"
    stParams,       \* stParams[s]: the call's parameters
    stDbError,      \* stDbError[s]: the insert raised an error other than the unique key's
    stResult,       \* stResult[s]: the value returned
    \* ---- POST /api/dispatch-outbox requests (SpecOutbox)
    bPc,            \* bPc[b]: "start", "loop", "done"
    bRows,          \* bRows[b]: the rows findAll returned, as read (id, attempt_count)
    bResults,       \* bResults[b]: the results array
    bResponse,      \* bResponse[b]: the HTTP response ("none": not yet)
    bPending,       \* bPending[b]: how the dispatch of the current row went so far
    reviewIssued,   \* reviewIssued[id]: pulls.createReview calls issued for row id
    updateFailed,   \* ids of the rows one of whose status updates raised
    bToken,         \* bToken[b]: the token authorized() took from the header
    bLimit,         \* bLimit[b]: the limit of the batch (0: not read yet)
    \* ---- one solveFailure invocation (SpecSolve)
    svPc,           \* "loop" (the while test), "tools" (the for loop), "final", "done", "failed"
    messages,       \* the conversation after the system and user messages
    calls,          \* tool calls of the last AI message not yet handled
    toolCalls,      \* the global call counter
    elapsed,        \* Date.now() - started, in time units
    toolCounts,     \* toolCounts[name]
    toolTimeMs,     \* toolTimeMs[name], in time units
    toolInvocations, \* the usage records
    \* ---- the validation of one change of a solution (SpecAnchor)
    anPc,           \* "start", "done"
    anFull,         \* the file's content at the commit
    anAfter,        \* ch.hunk.after as the model gave it
    anLine,         \* the line the match hints resolved (0: none)
    anResult,       \* the validated change: anchor line, hunk.after, isNoop
    \* ---- the validation, policy and review comments of a solution (SpecPolicy)
    plPc,           \* "parsed", "validated", "final", "staged"
    plSol,          \* sol: the parsed output of the final model call
    plValidated,    \* validatedChanges
    plFinal,        \* the SolutionsReturn (<<>>: not built)
    plStaged,       \* comments of the staged payload
    plPrev,         \* policy of the run before confidence was raised (<<>>: none)
    \* ---- the comments of one dispatched action (SpecComments)
    cmPc,           \* "start", "validated", "posted", "failed"
    cmComments,     \* payload.comments
    cmFile,         \* how pulls.listFiles lists a.ts: "absent", "nopatch", "patch"
    cmHunks,        \* the hunk headers of its patch: right-side start and length
    cmValid,        \* valid
    cmDiagnostics,  \* diagnostics
    cmReview,       \* the createReview call: bullets of the body, comments (<<>>: none)
    \* ---- one downloadLogsZipWithRetry call (SpecRetry)
    dlPc,           \* "idle", "try", "sleep", "returned", "raised"
    dlOutcomes,     \* dlOutcomes[k]: "ok" or the error the k-th attempt meets
    dlAttempt,      \* attempt, the loop variable
    lastErr,        \* lastErr ("null": none)
    backoff,        \* the delay computed after the last failed attempt
    dlSleeps,       \* the delays slept so far, in order
    \* ---- the anchor resolution of one change (SpecResolve)
    rsPc,           \* "start", "nudge", "fallback", "done"
    rsFull,         \* full: the content of the file
    rsMatch,        \* ch.match
    rsGuess,        \* ch.anchor?.line (0: null)
    rsPatch,        \* meta.patch: its hunk headers (<<>>: no patch or no header)
    rsNudged,       \* what nudgeAnchor returned (0: null or not called)
    rsLine          \* line (0: null)

runVars == <<fstatus, rowLock, pc, f, response, insight_loops, confidence,
             diagnoseRuns, solveRuns, stageResult, fixRecs, authorization>>
stageVars == <<stPc, stParams, stDbError, stResult>>
dispVars == <<bPc, bRows, bResults, bResponse, bPending, reviewIssued, updateFailed,
              bToken, bLimit>>
solveVars == <<svPc, messages, calls, toolCalls, elapsed, toolCounts, toolTimeMs,
               toolInvocations>>
anchorVars == <<anPc, anFull, anAfter, anLine, anResult>>
policyVars == <<plPc, plSol, plValidated, plFinal, plStaged, plPrev>>
commentVars == <<cmPc, cmComments, cmFile, cmHunks, cmValid, cmDiagnostics, cmReview>>
retryVars == <<dlPc, dlOutcomes, dlAttempt, lastErr, backoff, dlSleeps>>
resolveVars == <<rsPc, rsFull, rsMatch, rsGuess, rsPatch, rsNudged, rsLine>>
nonRunVars == <<stageVars, dispVars, solveVars, anchorVars, policyVars,
                 commentVars, retryVars,
                  resolveVars>>
nonStageVars == <<runVars, dispVars, solveVars, anchorVars, policyVars,
                 commentVars, retryVars,
                  resolveVars>>
nonDispVars == <<runVars, stageVars, solveVars, anchorVars, policyVars,
                 commentVars, retryVars,
                  resolveVars>>
nonSolveVars == <<runVars, outbox, stageVars, dispVars, anchorVars, policyVars,
                 commentVars, retryVars,
                  resolveVars>>
nonAnchorVars == <<runVars, outbox, stageVars, dispVars, solveVars, policyVars,
                  commentVars, retryVars,
                  resolveVars>>
nonPolicyVars == <<runVars, outbox, stageVars, dispVars, solveVars, anchorVars,
                  commentVars, retryVars,
                  resolveVars>>
nonCommentVars == <<runVars, outbox, stageVars, dispVars, solveVars, anchorVars,
                   policyVars, retryVars,
                  resolveVars>>
nonRetryVars == <<runVars, outbox, stageVars, dispVars, solveVars, anchorVars,
                  policyVars, commentVars,
                  resolveVars>>
nonResolveVars == <<runVars, outbox, stageVars, dispVars, solveVars, anchorVars,
                    policyVars, commentVars, retryVars>>
vars == <<runVars, outbox, stageVars, dispVars, solveVars, anchorVars, policyVars,
          commentVars, retryVars,
                  resolveVars>>

(***************************************************************************)
(* build_failures rows.  Two rows may belong to the same commit of the     *)
(* same pull request (two failed workflow runs), and may carry the same    *)
(* failure_timestamp.  The timestamp is the failure's own, so the ids do   *)
(* not follow it: row 1 is younger than row 2, rows 2 and 3 are equally    *)
(* old.                                                                    *)
(***************************************************************************)
FailureTimestamp(r) == IF r = 1 THEN 2 ELSE r \div 2
PrNumber(r) == (r + 1) \div 2
HeadSha(r) == <<"sha", (r + 1) \div 2>>
InstallationId(r) == IF r = 1 THEN 7 ELSE 0

(***************************************************************************)
(* Outbox stager (actuator.ts).                                            *)
(***************************************************************************)
TruncSuffix == <<"\n", "\n", "...", "_truncated_">>

clampLen(s, max) == IF Len(s) > max THEN SubSeq(s, 1, max) \o TruncSuffix ELSE s

\* rawComments.slice(0, MAX_REVIEW_COMMENTS)
CapComments(cs) == SubSeq(cs, 1, Min(Len(cs), MAX_REVIEW_COMMENTS))

\* p: [owner, repo, pull_number, head_sha, body, comments, installation_id]
BuildPayload(p) ==
    [type |-> "pr_review", owner |-> p.owner, repo |-> p.repo,
     pull_number |-> p.pull_number, head_sha |-> p.head_sha, event |-> "COMMENT",
     body |-> clampLen(p.body, BODY_MAX_CHARS), comments |-> CapComments(p.comments)]

\* A mutant: the idempotency key also covers the installation id.
ActionHashWithInstallation(p) ==
    <<"pr_review", p.owner, p.repo, p.pull_number, p.head_sha,
      clampLen(p.body, BODY_MAX_CHARS), CapComments(p.comments), p.installation_id>>

\* sha1(JSON.stringify({t, owner, repo, pull_number, head_sha, body, comments})):
\* the digest is represented by the serialized tuple itself (no collisions).
ActionHash(p) ==
    <<"pr_review", p.owner, p.repo, p.pull_number, p.head_sha,
      clampLen(p.body, BODY_MAX_CHARS), CapComments(p.comments)>>

\* A mutant: the table has no unique key on action_hash.
NoUniqueKey(rows, h) == FALSE

\* UNIQUE KEY ux_outbound_action_hash (action_hash)
UniqueViolation(rows, h) == \E i \in DOMAIN rows : rows[i].action_hash = h

NewRow(rows, p) ==
    [id |-> Len(rows) + 1, action_hash |-> ActionHash(p), action_type |-> "pr_review",
     head_sha |-> p.head_sha, installation_id |-> p.installation_id,
     payload |-> BuildPayload(p), status |-> "staged", attempt_count |-> 0,
     last_error |-> <<>>]

\* A mutant: after an error other than the unique key's the insert is tried again
\* and goes through.
StageInsertRetried(rows, p, dbError) ==
    IF UniqueViolation(rows, ActionHash(p)) /\ ~dbError
    THEN [rows |-> rows, result |-> [ok |-> TRUE, action_hash |-> ActionHash(p), already |-> TRUE]]
    ELSE [rows |-> Append(rows, NewRow(rows, p)),
          result |-> [ok |-> TRUE, action_hash |-> ActionHash(p), already |-> FALSE]]

\* The try/catch around OutboundAction.create.  dbError: the insert raised an
\* error other than the unique-key violation.
StageInsert(rows, p, dbError) ==
    IF dbError
    THEN [rows |-> rows, result |-> [ok |-> FALSE, action_hash |-> <<>>, already |-> FALSE]]
    ELSE IF UniqueViolation(rows, ActionHash(p))
    THEN [rows |-> rows, result |-> [ok |-> TRUE, action_hash |-> ActionHash(p), already |-> TRUE]]
    ELSE [rows |-> Append(rows, NewRow(rows, p)),
          result |-> [ok |-> TRUE, action_hash |-> ActionHash(p), already |-> FALSE]]

NoResult == [ok |-> FALSE, action_hash |-> <<"none">>, already |-> FALSE]

NoParams == [owner |-> "", repo |-> "", pull_number |-> 0, head_sha |-> <<>>,
             body |-> <<>>, comments |-> <<>>, installation_id |-> 0]

(***************************************************************************)
(* POST /api/graph-run (graph-run/route.ts) and the graph (graph.ts).      *)
(***************************************************************************)
Confidences == {79, 80}

\* solveFailure's summaryMarkdown carries the confidence; one_liner, rationale
\* and risk are fixed here.
SummaryMarkdown(conf) == <<"ResolvCI", conf>>

ReviewComments(r) == <<[path |-> "a.ts", line |-> r, body |-> "diag"]>>

DownloadErrors == {"http404", "http403"}

\* A mutant: every HTTP error is taken for transient.
isTransientAnyStatus(e) == e \in {"http429", "http500", "http502", "http503", "http504",
                                  "http404", "http403", "ETIMEDOUT", "ECONNRESET",
                                  "EAI_AGAIN"}

\* status 429, 500, 502, 503, 504 or 404, or a code matching
\* /ETIMEDOUT|ECONNRESET|EAI_AGAIN/
isTransientGitHubError(e) == e \in {"http429", "http500", "http502", "http503", "http504",
                                    "http404", "ETIMEDOUT", "ECONNRESET", "EAI_AGAIN"}

\* downloadLogsZipWithRetry: outcomes[attempt] is "ok" or the error of that attempt.
RECURSIVE downloadLogsZipWithRetry(_, _)
downloadLogsZipWithRetry(outcomes, attempt) ==
    IF attempt > LOG_MAX_RETRIES THEN [ok |-> FALSE, attempts |-> attempt - 1]
    ELSE IF outcomes[attempt] = "ok" THEN [ok |-> TRUE, attempts |-> attempt]
    ELSE LET transient == isTransientGitHubError(outcomes[attempt])
             isLast == attempt = LOG_MAX_RETRIES
         IN  IF ~transient \/ isLast
             THEN [ok |-> FALSE, attempts |-> attempt]
             ELSE downloadLogsZipWithRetry(outcomes, attempt + 1)

\* No graph-run request has started; m rows are `new`, the others were handled
\* by earlier runs.
\* process.env.CRON_SECRET
CRON_SECRET == "s"

\* Authorization headers, in pieces: none, the bearer of the secret, the bearer
\* of another token, the bare secret, another bare token
Headers == {<<>>, <<"Bearer ", CRON_SECRET>>, <<"Bearer ", "x">>, <<CRON_SECRET>>, <<"x">>}

\* no request has arrived
NoHeader == <<"-">>

\* A mutant: any bearer token is accepted.
authorizedAnyBearer(hdr) == hdr # <<>> /\ hdr[1] = "Bearer "

\* graph-run: req.headers.get("authorization") === `Bearer ${CRON_SECRET}`
authorized(hdr) == hdr = <<"Bearer ", CRON_SECRET>>

\* dispatch-outbox: hdr.startsWith("Bearer ") ? hdr.slice(7) : hdr
TokenOf(hdr) == IF hdr # <<>> /\ hdr[1] = "Bearer " THEN Tail(hdr) ELSE hdr

\* dispatch-outbox: token && token === process.env.CRON_SECRET
authorizedToken(token) == token # <<>> /\ token = <<CRON_SECRET>>

InitRun(m) ==
    /\ fstatus = [r \in Records |-> IF r <= m THEN "new" ELSE "proposed"]
    /\ rowLock = [r \in Records |-> 0]
    /\ pc = [p \in Runs |-> "start"]
    /\ f = [p \in Runs |-> 0]
    /\ response = [p \in Runs |-> "none"]
    /\ insight_loops = [p \in Runs |-> 0]
    /\ confidence = [p \in Runs |-> -1]
    /\ diagnoseRuns = [p \in Runs |-> 0]
    /\ solveRuns = [p \in Runs |-> 0]
    /\ stageResult = [p \in Runs |-> NoResult]
    /\ fixRecs = {}
    /\ authorization = [p \in Runs |-> NoHeader]

\* No caller of stageReviewOutboxFromSolution has started.
InitStage ==
    /\ stPc = [s \in Stagers |-> "idle"]
    /\ stParams = [s \in Stagers |-> NoParams]
    /\ stDbError = [s \in Stagers |-> FALSE]
    /\ stResult = [s \in Stagers |-> NoResult]

\* No dispatch-outbox request has started; B: the requests there will be.
InitDispatch(B) ==
    /\ bPc = [b \in B |-> "start"]
    /\ bRows = [b \in B |-> <<>>]
    /\ bResults = [b \in B |-> <<>>]
    /\ bResponse = [b \in B |-> "none"]
    /\ bPending = [b \in B |-> "none"]
    /\ reviewIssued = [id \in 1..MaxRows |-> 0]
    /\ updateFailed = {}
    /\ bToken = [b \in B |-> NoHeader]
    /\ bLimit = [b \in B |-> 0]

\* No solveFailure invocation is under way.
InitSolve ==
    /\ svPc = "loop"
    /\ messages = <<>>
    /\ calls = <<>>
    /\ toolCalls = 0
    /\ elapsed = 0
    /\ toolCounts = [n \in ToolNames |-> 0]
    /\ toolTimeMs = [n \in ToolNames |-> 0]
    /\ toolInvocations = <<>>

NoChange == [line |-> 0, after |-> <<>>, isNoop |-> FALSE]

\* No change is being validated.
InitAnchor ==
    /\ anPc = "start"
    /\ anFull = <<>>
    /\ anAfter = <<>>
    /\ anLine = 0
    /\ anResult = NoChange

\* No solution has been parsed
NoSolution == [confidence |-> 0, risk |-> "low", policy |-> [autoSuggestionEligible |-> FALSE],
               changes |-> <<>>]

\* No anchor is being resolved.
InitResolve ==
    /\ rsPc = "start"
    /\ rsFull = <<>>
    /\ rsMatch = [kind |-> "nearest_changed_hunk", original |-> <<>>, pattern |-> <<>>]
    /\ rsGuess = 0
    /\ rsPatch = <<>>
    /\ rsNudged = 0
    /\ rsLine = 0

\* No log download is under way.
InitRetry ==
    /\ dlPc = "idle"
    /\ dlOutcomes = <<>>
    /\ dlAttempt = 0
    /\ lastErr = "null"
    /\ backoff = 0
    /\ dlSleeps = <<>>

\* No action is being dispatched
InitComments ==
    /\ cmPc = "start"
    /\ cmComments = <<>>
    /\ cmFile = "absent"
    /\ cmHunks = <<>>
    /\ cmValid = <<>>
    /\ cmDiagnostics = <<>>
    /\ cmReview = <<>>

InitPolicy ==
    /\ plPc = "parsed"
    /\ plSol = NoSolution
    /\ plValidated = <<>>
    /\ plFinal = <<>>
    /\ plStaged = <<>>
    /\ plPrev = <<>>

\* The table holds either only `new` rows, or one `new` row beside rows that
\* earlier runs have already handled.
Init ==
    /\ \E m \in {1, NumRecords} : InitRun(m)
    /\ outbox = <<>>
    /\ InitStage
    /\ InitDispatch(Batches)
    /\ InitSolve
    /\ InitAnchor
    /\ InitPolicy
    /\ InitComments
    /\ InitRetry
    /\ InitResolve

\* The handler returns: the response is sent and the request's graph state is gone.
Return(p, resp) ==
    /\ pc' = [pc EXCEPT ![p] = "done"]
    /\ response' = [response EXCEPT ![p] = resp]
    /\ insight_loops' = [insight_loops EXCEPT ![p] = 0]
    /\ confidence' = [confidence EXCEPT ![p] = -1]
    /\ diagnoseRuns' = [diagnoseRuns EXCEPT ![p] = 0]
    /\ solveRuns' = [solveRuns EXCEPT ![p] = 0]
    /\ stageResult' = [stageResult EXCEPT ![p] = NoResult]

\* the status of NextResponse.json(body, {status}) for each body the handler sends
HttpStatus(resp) ==
    CASE resp = "forbidden" -> 403
      [] resp \in {"idle", "ok"} -> 200
      [] resp \in {"claim_failed", "run_failed", "log_failed"} -> 500

graphVars == <<insight_loops, confidence, diagnoseRuns, solveRuns, stageResult>>

\* The request arrives with its header; ok: authorized(req)
Receive(p, ok) ==
    \E hdr \in Headers :
        /\ authorized(hdr) = ok
        /\ authorization' = [authorization EXCEPT ![p] = hdr]

\* if (!authorized(req)) return 403
Forbidden(p) ==
    /\ pc[p] = "start"
    /\ Receive(p, FALSE)
    /\ UNCHANGED nonRunVars
    /\ Return(p, "forbidden")
    /\ UNCHANGED <<fstatus, rowLock, f, fixRecs, outbox>>

\* A mutant: the select takes no row lock and does not wait for one.
FindOneUnlocked(p, r) ==
    /\ fstatus[r] = "new"
    /\ \A q \in Records : fstatus[q] = "new" => FailureTimestamp(r) <= FailureTimestamp(q)

\* A mutant: the select has no ORDER BY and returns any new row.
FindOneAnyNew(p, r) ==
    /\ fstatus[r] = "new"
    /\ rowLock[r] = 0

\* BuildFailure.findOne({where: {status: "new"}, order: failure_timestamp ASC,
\* lock: UPDATE}): the oldest `new` row (any of them on a tie), read under its
\* row lock.  The locking read waits while another transaction holds that lock,
\* and reads the committed row once it gets it.
FindOneForUpdate(p, r) ==
    /\ fstatus[r] = "new"
    /\ \A q \in Records : fstatus[q] = "new" => FailureTimestamp(r) <= FailureTimestamp(q)
    /\ rowLock[r] = 0

\* sequelize.transaction(); findOne(...) returned a row
ClaimFind(p) ==
    /\ pc[p] = "start"
    /\ Receive(p, TRUE)
    /\ UNCHANGED nonRunVars
    /\ \E r \in Records :
         /\ FindOneForUpdate(p, r)
         /\ f' = [f EXCEPT ![p] = r]
         /\ rowLock' = [rowLock EXCEPT ![r] = p]
    /\ pc' = [pc EXCEPT ![p] = "claiming"]
    /\ UNCHANGED <<fstatus, response, graphVars, fixRecs, outbox>>

\* findOne(...) returned null: rollback, {ok: true, msg: "idle"}
ClaimIdle(p) ==
    /\ pc[p] = "start"
    /\ Receive(p, TRUE)
    /\ UNCHANGED nonRunVars
    /\ \A r \in Records : fstatus[r] # "new"
    /\ Return(p, "idle")
    /\ UNCHANGED <<fstatus, rowLock, f, fixRecs, outbox>>

\* f.update({status: "analyzing"}, {transaction: t}); t.commit()
ClaimCommit(p) ==
    /\ pc[p] = "claiming"
    /\ UNCHANGED <<nonRunVars, authorization>>
    /\ fstatus' = [fstatus EXCEPT ![f[p]] = "analyzing"]
    /\ rowLock' = [r \in Records |-> IF rowLock[r] = p THEN 0 ELSE rowLock[r]]
    /\ pc' = [pc EXCEPT ![p] = "download"]
    /\ UNCHANGED <<f, response, graphVars, fixRecs, outbox>>

\* A mutant: the failed claim is not rolled back.
ClaimErrorKeepsUpdate(p) ==
    /\ pc[p] \in {"start", "claiming"}
    /\ IF pc[p] = "start" THEN Receive(p, TRUE) ELSE UNCHANGED authorization
    /\ UNCHANGED nonRunVars
    /\ rowLock' = [r \in Records |-> IF rowLock[r] = p THEN 0 ELSE rowLock[r]]
    /\ f' = [f EXCEPT ![p] = 0]
    /\ Return(p, "claim_failed")
    /\ fstatus' = IF f[p] # 0 THEN [fstatus EXCEPT ![f[p]] = "analyzing"] ELSE fstatus
    /\ UNCHANGED <<fixRecs, outbox>>

\* catch (err): findOne, update or commit raised; t.rollback(), claim_failed
ClaimError(p) ==
    /\ pc[p] \in {"start", "claiming"}
    /\ IF pc[p] = "start" THEN Receive(p, TRUE) ELSE UNCHANGED authorization
    /\ UNCHANGED nonRunVars
    /\ rowLock' = [r \in Records |-> IF rowLock[r] = p THEN 0 ELSE rowLock[r]]
    /\ f' = [f EXCEPT ![p] = 0]
    /\ Return(p, "claim_failed")
    /\ UNCHANGED <<fstatus, fixRecs, outbox>>

\* The outer catch: best-effort f.update({status: "skipped"}), status 500.
\* dbOk: the update went through (its own failure is swallowed).
MarkSkipped(p, dbOk) ==
    /\ fstatus' = IF dbOk THEN [fstatus EXCEPT ![f[p]] = "skipped"] ELSE fstatus
    /\ Return(p, "run_failed")

\* catch (e) of the log download: return 500 (no status update)
LogFailure(p) ==
    /\ Return(p, "log_failed")
    /\ UNCHANGED fstatus

\* getOctokitFor...; downloadLogsZipWithRetry; unzip; f.update({log_content, ...})
Download(p) ==
    /\ pc[p] = "download"
    /\ UNCHANGED <<nonRunVars, authorization>>
    /\ \/ \E outcomes \in [1..LOG_MAX_RETRIES -> DownloadErrors \cup {"ok"}] :
            IF downloadLogsZipWithRetry(outcomes, 1).ok
            THEN /\ pc' = [pc EXCEPT ![p] = "diagnose"]
                 /\ UNCHANGED <<fstatus, response, graphVars>>
            ELSE LogFailure(p)
       \/ \* the Octokit client could not be resolved: outer catch
          \E dbOk \in BOOLEAN : MarkSkipped(p, dbOk)
    /\ UNCHANGED <<rowLock, f, fixRecs, outbox>>

\* node "diagnose": analyzeFailure(...), then the edge to "solutions"
Diagnose(p) ==
    /\ pc[p] = "diagnose"
    /\ UNCHANGED <<nonRunVars, authorization>>
    /\ diagnoseRuns' = [diagnoseRuns EXCEPT ![p] = @ + 1]
    /\ pc' = [pc EXCEPT ![p] = "solutions"]
    /\ UNCHANGED <<fstatus, rowLock, f, response, insight_loops, confidence,
                   solveRuns, stageResult, fixRecs, outbox>>

\* A mutant: the loop ceiling is compared with > instead of >=.
RouteAfterSolutionsStrict(conf, loops) ==
    IF conf >= TAU THEN "actuator"
    ELSE IF loops > MAX_LOOPS THEN "actuator"
    ELSE "diagnose"

\* A mutant: the edge goes to the actuator only when both conditions hold.
RouteAfterSolutionsBoth(conf, loops) ==
    IF conf >= TAU /\ loops >= MAX_LOOPS THEN "actuator" ELSE "diagnose"

\* A mutant: below the threshold the edge goes back to "solutions" itself.
RouteAfterSolutionsResolve(conf, loops) ==
    IF conf >= TAU THEN "actuator"
    ELSE IF loops >= MAX_LOOPS THEN "actuator"
    ELSE "solutions"

\* The conditional edge after "solutions".
RouteAfterSolutions(conf, loops) ==
    IF conf >= TAU THEN "actuator"
    ELSE IF loops >= MAX_LOOPS THEN "actuator"
    ELSE "diagnose"

\* node "solutions": solveFailure(...) returned; the conditional edge is taken
Solve(p) ==
    /\ pc[p] = "solutions"
    /\ UNCHANGED <<nonRunVars, authorization>>
    /\ \E c \in Confidences :
         /\ confidence' = [confidence EXCEPT ![p] = c]
         /\ insight_loops' = [insight_loops EXCEPT ![p] = @ + 1]
         /\ pc' = [pc EXCEPT ![p] = RouteAfterSolutions(c, insight_loops[p] + 1)]
    /\ solveRuns' = [solveRuns EXCEPT ![p] = @ + 1]
    /\ UNCHANGED <<fstatus, rowLock, f, response, diagnoseRuns, stageResult,
                   fixRecs, outbox>>

\* analyzeFailure or solveFailure raised: ResolvGraphApp.invoke rejects, outer catch
NodeThrows(p) ==
    /\ pc[p] \in {"diagnose", "solutions"}
    /\ UNCHANGED <<nonRunVars, authorization>>
    /\ \E dbOk \in BOOLEAN : MarkSkipped(p, dbOk)
    /\ UNCHANGED <<rowLock, f, fixRecs, outbox>>

StageParams(p) ==
    [owner |-> "o", repo |-> "r", pull_number |-> PrNumber(f[p]),
     head_sha |-> HeadSha(f[p]), body |-> SummaryMarkdown(confidence[p]),
     comments |-> ReviewComments(PrNumber(f[p])),
     installation_id |-> InstallationId(f[p])]

\* A mutant: the actuator node has an edge back to itself.
ActRepeats(p) ==
    /\ pc[p] = "actuator"
    /\ UNCHANGED <<nonRunVars, authorization>>
    /\ \E dbError \in BOOLEAN :
         LET s == StageInsert(outbox, StageParams(p), dbError)
         IN  /\ outbox' = s.rows
             /\ stageResult' = [stageResult EXCEPT ![p] = s.result]
    /\ \E next \in {"actuator", "knowledge"} : pc' = [pc EXCEPT ![p] = next]
    /\ UNCHANGED <<fstatus, rowLock, f, response, insight_loops, confidence,
                   diagnoseRuns, solveRuns, fixRecs>>

\* node "actuator": stageReviewOutboxFromSolution(...); its result is dropped
Act(p) ==
    /\ pc[p] = "actuator"
    /\ UNCHANGED <<nonRunVars, authorization>>
    /\ \E dbError \in BOOLEAN :
         LET s == StageInsert(outbox, StageParams(p), dbError)
         IN  /\ outbox' = s.rows
             /\ stageResult' = [stageResult EXCEPT ![p] = s.result]
    /\ pc' = [pc EXCEPT ![p] = "knowledge"]
    /\ UNCHANGED <<fstatus, rowLock, f, response, insight_loops, confidence,
                   diagnoseRuns, solveRuns, fixRecs>>

\* node "knowledge": recordSolutionArtifacts(...): one transaction marks the row
\* proposed and inserts the recommendation (no-op on a duplicate key); an error
\* rolls it back and is returned, not raised
Persist(p) ==
    /\ pc[p] = "knowledge"
    /\ UNCHANGED <<nonRunVars, authorization>>
    /\ \/ /\ fstatus' = [fstatus EXCEPT ![f[p]] = "proposed"]
          /\ fixRecs' = fixRecs \cup {<<f[p], HeadSha(f[p])>>}
       \/ UNCHANGED <<fstatus, fixRecs>>
    /\ pc' = [pc EXCEPT ![p] = "invoked"]
    /\ UNCHANGED <<rowLock, f, response, graphVars, outbox>>

\* after ResolvGraphApp.invoke: f.update({status: "proposed"}), {ok: true};
\* if the update raises, the outer catch
Finish(p) ==
    /\ pc[p] = "invoked"
    /\ UNCHANGED <<nonRunVars, authorization>>
    /\ \/ /\ fstatus' = [fstatus EXCEPT ![f[p]] = "proposed"]
          /\ Return(p, "ok")
       \/ \E dbOk \in BOOLEAN : MarkSkipped(p, dbOk)
    /\ UNCHANGED <<rowLock, f, fixRecs, outbox>>

Next ==
    \E p \in Runs :
        \/ Forbidden(p)
        \/ ClaimFind(p)
        \/ ClaimIdle(p)
        \/ ClaimCommit(p)
        \/ ClaimError(p)
        \/ Download(p)
        \/ Diagnose(p)
        \/ Solve(p)
        \/ NodeThrows(p)
        \/ Act(p)
        \/ Persist(p)
        \/ Finish(p)

Spec == Init /\ [][Next]_vars

(***************************************************************************)
(* Claims about the graph-run trigger.                                     *)
(***************************************************************************)
Claimed == {f[p] : p \in Runs} \ {0}
\* requests that got past authorization and met no database error in the claim
Claimers == {p \in Runs : response[p] \notin {"forbidden", "claim_failed"}}
StillNew == {r \in Records : fstatus[r] = "new"}
ClaimsSettled == \A p \in Runs : pc[p] \notin {"start", "claiming"}

\* C1: exclusive claim.  No row is ever held by two requests; a row has left
\* `new` exactly when a request committed its claim of it; and once the N
\* concurrent claim attempts are over, exactly min(N, M) distinct rows were
\* claimed, M being the rows that were `new` (those claimed plus those still new)
\* and N the attempts that were authorized and met no database error.
C1_ExclusiveClaim ==
    /\ \A p, q \in Runs : (p # q /\ f[p] # 0) => f[p] # f[q]
    /\ \A p \in Runs : (f[p] # 0 /\ pc[p] # "claiming") => fstatus[f[p]] # "new"
    /\ \A p \in Runs : (f[p] # 0 /\ pc[p] = "claiming") =>
          (fstatus[f[p]] = "new" /\ rowLock[f[p]] = p)
    /\ ClaimsSettled =>
          Cardinality(Claimed) =
              Min(Cardinality(Claimers), Cardinality(Claimed) + Cardinality(StillNew))

\* Two concurrent requests have both committed a claim: two distinct rows are
\* `analyzing`, one per request.
C1_Witness ==
    /\ pc[1] = "download" /\ pc[2] = "download"
    /\ f[1] # 0 /\ f[2] # 0 /\ f[1] # f[2]
    /\ fstatus[f[1]] = "analyzing" /\ fstatus[f[2]] = "analyzing"

\* C5: loop termination.  The loop counter never exceeds MAX_LOOPS, the graph is
\* in diagnose or solutions only while fewer than MAX_LOOPS solves have run, and
\* it stands at the actuator after 1..MAX_LOOPS executions of solutions, whatever
\* the confidences were (at the ceiling even though confidence is below TAU).
C5_LoopTermination ==
    \A p \in Runs :
        /\ insight_loops[p] <= MAX_LOOPS
        /\ solveRuns[p] <= MAX_LOOPS
        /\ pc[p] \in {"diagnose", "solutions"} =>
              (insight_loops[p] < MAX_LOOPS /\ solveRuns[p] < MAX_LOOPS)
        /\ pc[p] = "actuator" =>
              /\ solveRuns[p] \in 1..MAX_LOOPS
              /\ confidence[p] >= TAU \/ solveRuns[p] = MAX_LOOPS

\* A run reached the actuator at the loop ceiling with confidence still below TAU.
C5_Witness ==
    \E p \in Runs :
        pc[p] = "actuator" /\ confidence[p] < TAU /\ solveRuns[p] = MAX_LOOPS

\* C6: no record is left `analyzing` by a finished run: a request that claimed a
\* row and has returned (completed, or failed in the log download) has left the
\* row `proposed` or `skipped`.
C6_NoRecordLeftAnalyzing ==
    \A p \in Runs :
        (pc[p] = "done" /\ f[p] # 0 /\ response[p] \in {"ok", "log_failed"}) =>
            fstatus[f[p]] \in {"proposed", "skipped"}

\* A request whose claim returned no record
NoRecord(p) == response[p] \in {"idle", "claim_failed"}

\* C15: a claim that returns no record mutates nothing.  Until it returns, a
\* request that has not committed its claim has written no row (the row it found
\* is still new).  The step that returns idle is taken only when no row is new,
\* returns without error, and changes no row; the step that returns claim_failed
\* changes no row either; and the two responses differ in their HTTP status.
C15_NoRecordNoMutation ==
    /\ [](\A p \in Runs : pc[p] = "claiming" => fstatus[f[p]] = "new")
    /\ [][\A p \in Runs :
            (response[p] = "none" /\ response'[p] \in {"idle", "claim_failed"}) =>
                /\ fstatus' = fstatus
                /\ fixRecs' = fixRecs
                /\ outbox' = outbox
                /\ response'[p] = "idle" =>
                      /\ \A r \in Records : fstatus[r] # "new"
                      /\ HttpStatus(response'[p]) = 200
                /\ response'[p] = "claim_failed" => HttpStatus(response'[p]) = 500]_vars

\* A request found a row, failed to claim it and reported claim_failed; the row
\* is still new and another request has found it since.
C15_Witness ==
    \E p, q \in Runs :
        /\ response[p] = "claim_failed"
        /\ pc[q] = "claiming"
        /\ fstatus[f[q]] = "new"

\* the status changes of the lifecycle
Lifecycle ==
    {<<"new", "analyzing">>, <<"analyzing", "proposed">>, <<"analyzing", "skipped">>,
     <<"proposed", "applied">>}

\* C19: FailureRecord lifecycle.  Every change of a record's status goes along
\* new -> analyzing -> proposed or new -> analyzing -> skipped (or proposed ->
\* applied): no record returns to new or analyzing, and none moves between
\* proposed and skipped.
C19_Lifecycle ==
    [][\A r \in Records :
          fstatus'[r] # fstatus[r] => <<fstatus[r], fstatus'[r]>> \in Lifecycle]_vars

\* C28: claim order.  The record a request holds while claiming is new, locked
\* by that request, and has the earliest failure timestamp among the records
\* that are new; the claim's commit sets exactly that record to analyzing and
\* changes no other record.
C28_ClaimOrder ==
    /\ [](\A p \in Runs : pc[p] = "claiming" =>
            /\ fstatus[f[p]] = "new"
            /\ \A q \in Records :
                  fstatus[q] = "new" => FailureTimestamp(f[p]) <= FailureTimestamp(q))
    /\ [][\A p \in Runs : (pc[p] = "claiming" /\ pc'[p] = "download") =>
            fstatus' = [fstatus EXCEPT ![f[p]] = "analyzing"]]_vars

\* A request claimed the older record while a younger one, of a smaller id, was
\* new, and that one is still new.
C28_Witness ==
    \E p \in Runs : \E q \in Records :
        /\ pc[p] = "download"
        /\ fstatus[f[p]] = "analyzing"
        /\ fstatus[q] = "new"
        /\ q < f[p]
        /\ FailureTimestamp(f[p]) < FailureTimestamp(q)

\* The review of run p is in the outbox: the staging returned ok and a row
\* carries its hash, with diagnostic comments only.
ReviewStaged(p) ==
    /\ stageResult[p].ok
    /\ \E i \in DOMAIN outbox :
          /\ outbox[i].action_hash = stageResult[p].action_hash
          /\ \A k \in DOMAIN outbox[i].payload.comments :
                outbox[i].payload.comments[k].body = "diag"

\* C21: graceful degradation.  A run whose confidence is below TAU stands at
\* the actuator only at the loop ceiling; once it is past the actuator, and
\* when it returns, its diagnostic review is in the outbox: it never ends
\* without a review.
C21_GracefulDegradation ==
    /\ [](\A p \in Runs :
            /\ (pc[p] = "actuator" /\ confidence[p] < TAU) => insight_loops[p] = MAX_LOOPS
            /\ (pc[p] \in {"knowledge", "invoked"} /\ confidence[p] < TAU) =>
                  ReviewStaged(p))
    /\ [][\A p \in Runs :
            (pc[p] = "invoked" /\ pc'[p] = "done" /\ confidence[p] < TAU) =>
                ReviewStaged(p)]_vars

\* C22: decide rule.  Every step in which solutions completes leaves the graph
\* at the actuator exactly when the new confidence is at least TAU or the new
\* loop count is at least MAX_LOOPS, and at diagnose otherwise.
C22_DecideRule ==
    [][\A p \in Runs : solveRuns'[p] = solveRuns[p] + 1 =>
          /\ pc'[p] \in {"actuator", "diagnose"}
          /\ pc'[p] = "actuator" <=>
                (confidence'[p] >= TAU \/ insight_loops'[p] >= MAX_LOOPS)]_vars

\* A run went back to diagnose after a solve below TAU, and another run went
\* to the actuator after its first solve.
C22_Witness ==
    \E p, q \in Runs :
        /\ pc[p] = "diagnose" /\ solveRuns[p] = 1 /\ confidence[p] < TAU
        /\ pc[q] = "actuator" /\ solveRuns[q] = 1 /\ confidence[q] >= TAU

\* C23: the loop re-enters on diagnose.  The graph enters solutions only by a
\* diagnose step, so that one more diagnose than solve has run while it stands
\* at solutions; a solve raises the loop count by exactly one; and wherever the
\* graph stands outside solutions, and so at the actuator, the number of
\* diagnoses, the number of solves and the loop count are equal.
C23_LoopReentersOnDiagnose ==
    /\ [](\A p \in Runs :
            /\ pc[p] = "solutions" =>
                  (diagnoseRuns[p] = solveRuns[p] + 1 /\ insight_loops[p] = solveRuns[p])
            /\ pc[p] # "solutions" =>
                  (diagnoseRuns[p] = solveRuns[p] /\ insight_loops[p] = solveRuns[p]))
    /\ [][\A p \in Runs :
            /\ (pc'[p] = "solutions" /\ pc[p] # "solutions") =>
                  (pc[p] = "diagnose" /\ diagnoseRuns'[p] = diagnoseRuns[p] + 1)
            /\ solveRuns'[p] = solveRuns[p] + 1 =>
                  (pc[p] = "solutions" /\ insight_loops'[p] = insight_loops[p] + 1)
            /\ insight_loops'[p] # insight_loops[p] =>
                  (solveRuns'[p] = solveRuns[p] + 1 \/ pc'[p] = "done")]_vars

\* A run stands at the actuator after three diagnoses and three solves.
C23_Witness ==
    \E p \in Runs :
        /\ pc[p] = "actuator"
        /\ diagnoseRuns[p] = MAX_LOOPS /\ solveRuns[p] = MAX_LOOPS
        /\ insight_loops[p] = MAX_LOOPS

\* C24: ordering of the tail.  The actuator is entered only by the decide step
\* of a solve and left only for knowledge, which is left only for the end of
\* the graph; the staging result of a run is written once, in the step that
\* leaves the actuator, and no row enters the outbox in any other step; the row
\* of a run is marked proposed only by its knowledge step or after it; and a
\* run returns ok only after the graph has ended.
C24_TailOrder ==
    /\ [](\A p \in Runs :
            /\ pc[p] \in {"start", "claiming", "download", "diagnose", "solutions",
                           "actuator"} => stageResult[p] = NoResult
            /\ pc[p] \in {"knowledge", "invoked"} => stageResult[p] # NoResult)
    /\ [][/\ \A q \in Runs :
               /\ (pc'[q] = "actuator" /\ pc[q] # "actuator") =>
                     (pc[q] = "solutions" /\ solveRuns'[q] = solveRuns[q] + 1)
               /\ pc[q] = "actuator" => pc'[q] \in {"actuator", "knowledge"}
               /\ (pc'[q] = "knowledge" /\ pc[q] # "knowledge") => pc[q] = "actuator"
               /\ pc[q] = "knowledge" => pc'[q] \in {"knowledge", "invoked"}
               /\ (pc'[q] = "invoked" /\ pc[q] # "invoked") => pc[q] = "knowledge"
               /\ pc[q] = "invoked" => pc'[q] \in {"invoked", "done"}
               /\ stageResult'[q] # stageResult[q] =>
                     \/ pc[q] = "actuator" /\ pc'[q] = "knowledge"
                           /\ stageResult[q] = NoResult
                     \/ pc'[q] = "done"
               /\ (response'[q] = "ok" /\ response[q] # "ok") => pc[q] = "invoked"
          /\ outbox' # outbox =>
                 \E p \in Runs : pc[p] = "actuator" /\ pc'[p] = "knowledge"
          /\ \A r \in Records : (fstatus'[r] = "proposed" /\ fstatus[r] # "proposed") =>
                 \E p \in Runs :
                     /\ f[p] = r
                     /\ \/ pc[p] = "knowledge" /\ pc'[p] = "invoked"
                        \/ pc[p] = "invoked" /\ pc'[p] = "done"]_vars

\* A run returned ok: its record is proposed, its recommendation is stored and
\* a review for its pull request is staged.
C24_Witness ==
    \E p \in Runs :
        /\ response[p] = "ok"
        /\ fstatus[f[p]] = "proposed"
        /\ <<f[p], HeadSha(f[p])>> \in fixRecs
        /\ \E i \in DOMAIN outbox : outbox[i].head_sha = HeadSha(f[p])

\* C25: abort on error.  When diagnose or solutions raises, in whatever
\* iteration, the request returns run_failed with its record marked skipped;
\* the run has staged nothing and stored no recommendation, and the step
\* changes neither the outbox nor the recommendations; a skipped record stays
\* skipped, so it is never proposed.
C25_AbortDiscards ==
    [][/\ \A q \in Runs :
            (pc[q] \in {"diagnose", "solutions"} /\ pc'[q] = "done") =>
                /\ response'[q] = "run_failed"
                /\ fstatus'[f[q]] = "skipped"
                /\ stageResult[q] = NoResult
                /\ <<f[q], HeadSha(f[q])>> \notin fixRecs'
                /\ outbox' = outbox
                /\ fixRecs' = fixRecs
      /\ \A r \in Records : fstatus[r] = "skipped" => fstatus'[r] = "skipped"]_vars

\* C35: a proposed record has its review in the outbox.  Whenever the record a
\* run claimed is proposed, a row for its pull request and head commit is in
\* the outbox.
C35_ProposedHasReview ==
    \A p \in Runs :
        (f[p] # 0 /\ fstatus[f[p]] = "proposed") =>
            \E i \in DOMAIN outbox :
                /\ outbox[i].payload.pull_number = PrNumber(f[p])
                /\ outbox[i].head_sha = HeadSha(f[p])

\* C36: a proposed record has its solution artifact.  Whenever the record a run
\* claimed is proposed, a recommendation for that record and its head commit is
\* stored.
C36_ProposedHasArtifact ==
    \A p \in Runs :
        (f[p] # 0 /\ fstatus[f[p]] = "proposed") =>
            <<f[p], HeadSha(f[p])>> \in fixRecs

(***************************************************************************)
(* SpecStage: concurrent callers of stageReviewOutboxFromSolution.         *)
(***************************************************************************)
StageBodies == {<<"b">>, <<"b", "o", "d", "y">>, <<"b", "o", "d", "x">>}

StageComment(n) == [path |-> "a.ts", line |-> n, body |-> "diag"]

StageCommentLists == {<<>>, <<StageComment(1), StageComment(2), StageComment(3)>>}

StageParamsSet ==
    [owner : {"o"}, repo : {"r"}, pull_number : {1}, head_sha : {<<"sha", 1>>},
     body : StageBodies, comments : StageCommentLists, installation_id : {0, 7}]

\* stageReviewOutboxFromSolution(p): normalizeSolution, the capped comments, the
\* clamped body, the payload and the action hash are computed from p
StageCall(s) ==
    /\ stPc[s] = "idle"
    /\ \E params \in StageParamsSet : stParams' = [stParams EXCEPT ![s] = params]
    /\ stPc' = [stPc EXCEPT ![s] = "create"]
    /\ UNCHANGED <<stDbError, stResult, outbox, nonStageVars>>

\* OutboundAction.create(...) and the catch around it; the value returned
StageCreate(s) ==
    /\ stPc[s] = "create"
    /\ \E dbError \in BOOLEAN :
         LET r == StageInsert(outbox, stParams[s], dbError)
         IN  /\ outbox' = r.rows
             /\ stResult' = [stResult EXCEPT ![s] = r.result]
             /\ stDbError' = [stDbError EXCEPT ![s] = dbError]
    /\ stPc' = [stPc EXCEPT ![s] = "done"]
    /\ UNCHANGED <<stParams, nonStageVars>>

InitStagers ==
    /\ InitRun(NumRecords)
    /\ outbox = <<>>
    /\ InitStage
    /\ InitDispatch(Batches)
    /\ InitSolve
    /\ InitAnchor
    /\ InitPolicy
    /\ InitComments
    /\ InitRetry
    /\ InitResolve

NextStage == \E s \in Stagers : StageCall(s) \/ StageCreate(s)

SpecStage == InitStagers /\ [][NextStage]_vars

(***************************************************************************)
(* Claims about staging.                                                   *)
(***************************************************************************)
\* the same logical review: every field but the installation id agrees
SameReview(p, q) ==
    /\ p.owner = q.owner /\ p.repo = q.repo /\ p.pull_number = q.pull_number
    /\ p.head_sha = q.head_sha /\ p.body = q.body /\ p.comments = q.comments

RowsWithHash(h) == {i \in DOMAIN outbox : outbox[i].action_hash = h}

StagedOk(s) == stPc[s] = "done" /\ ~stDbError[s]

\* C3: idempotent staging.  Two finished stage calls with the same owner, repo,
\* PR number, head commit, body and comments (whatever their installation ids)
\* both returned success with the same action hash, and the outbox holds exactly
\* one row with that hash (calls whose insert met a database error other than the
\* duplicate key aside).
C3_IdempotentStaging ==
    \A s, t \in Stagers :
        (StagedOk(s) /\ StagedOk(t) /\ SameReview(stParams[s], stParams[t])) =>
            /\ stResult[s].ok /\ stResult[t].ok
            /\ stResult[s].action_hash = stResult[t].action_hash
            /\ Cardinality(RowsWithHash(stResult[s].action_hash)) = 1

\* The same review was staged twice under different installation ids: the first
\* call inserted the row and the second found it.
C3_Witness ==
    /\ StagedOk(1) /\ StagedOk(2)
    /\ SameReview(stParams[1], stParams[2])
    /\ stParams[1].installation_id # stParams[2].installation_id
    /\ ~stResult[1].already /\ stResult[2].already
    /\ Len(outbox) = 1

\* C4: concurrent staging is safe.  No two outbox rows share an action hash; every
\* stage call whose insert met no other database error returned success; the row
\* of every successful call is there with that call's payload (none lost); and the
\* outbox holds one row per distinct hash staged, no more (none duplicated).
C4_ConcurrentStagingSafe ==
    /\ \A i, j \in DOMAIN outbox :
          i # j => outbox[i].action_hash # outbox[j].action_hash
    /\ \A s \in Stagers : StagedOk(s) =>
          /\ stResult[s].ok
          /\ \E i \in DOMAIN outbox :
                /\ outbox[i].action_hash = stResult[s].action_hash
                /\ outbox[i].payload = BuildPayload(stParams[s])
                /\ outbox[i].status = "staged"
    /\ Len(outbox) = Cardinality({stResult[s].action_hash : s \in {t \in Stagers : StagedOk(t)}})

\* Two runs staged the same logical review while both calls were in flight: both
\* returned success, one of them as a duplicate, and one row exists.
C4_Witness ==
    /\ stPc[1] = "done" /\ stPc[2] = "done"
    /\ stParams[1] = stParams[2]
    /\ stResult[1].ok /\ stResult[2].ok
    /\ stResult[1].already /\ ~stResult[2].already
    /\ Cardinality(RowsWithHash(stResult[1].action_hash)) = 1

\* C17: staging error values.  When the insert meets the unique key on the action
\* hash, the call returns success, already staged, with the hash of the row that
\* is there, and no row changes; when it meets any other persistence error, the
\* call returns an error result and no row is inserted; and a call that has
\* returned does nothing more (the insert is not tried again).
C17_StagingErrorValues ==
    [][\A s \in Stagers :
          /\ (stPc[s] = "create" /\ stPc'[s] = "done") =>
                /\ stDbError'[s] =>
                      /\ ~stResult'[s].ok
                      /\ outbox' = outbox
                /\ (~stDbError'[s] /\ RowsWithHash(ActionHash(stParams[s])) # {}) =>
                      /\ stResult'[s].ok /\ stResult'[s].already
                      /\ stResult'[s].action_hash \in {outbox[i].action_hash : i \in DOMAIN outbox}
                      /\ stResult'[s].action_hash = ActionHash(stParams[s])
                      /\ outbox' = outbox
          /\ stPc[s] = "done" => stPc'[s] = "done" /\ stResult'[s] = stResult[s]]_vars

\* One call staged a review; another call, for a different review, met a database
\* error and returned an error result: the outbox holds the first row only.
C17_Witness ==
    \E s, t \in Stagers :
        /\ stPc[s] = "done" /\ stPc[t] = "done"
        /\ stResult[s].ok /\ ~stResult[s].already
        /\ stDbError[t] /\ ~stResult[t].ok
        /\ ~SameReview(stParams[s], stParams[t])
        /\ Len(outbox) = 1

IsPrefix(a, b) == Len(a) <= Len(b) /\ \A k \in DOMAIN a : a[k] = b[k]

\* C34: payload caps.  Every staged row's payload has at most
\* MAX_REVIEW_COMMENTS comments and a body of at most BODY_MAX_CHARS characters,
\* body and comments being those of some call, cut; and its hash is the hash of
\* these values.
C34_PayloadCaps ==
    \A i \in DOMAIN outbox :
        /\ Len(outbox[i].payload.comments) <= MAX_REVIEW_COMMENTS
        /\ Len(outbox[i].payload.body) <= BODY_MAX_CHARS
        /\ \E p \in StageParamsSet :
              /\ IsPrefix(outbox[i].payload.comments, p.comments)
              /\ IsPrefix(outbox[i].payload.body, p.body)
              /\ outbox[i].action_hash =
                    <<"pr_review", p.owner, p.repo, p.pull_number, p.head_sha,
                      outbox[i].payload.body, outbox[i].payload.comments>>

(***************************************************************************)
(* SpecOutbox: POST /api/dispatch-outbox batches (part_000) running        *)
(* dispatchOneOutboundAction (actuator.ts) while graph runs stage reviews. *)
(***************************************************************************)
\* the review the k-th graph run stages: one per pull request, every second one
\* with inline comments
StagedReview(k) ==
    [owner |-> "o", repo |-> "r", pull_number |-> k, head_sha |-> <<"sha", k>>,
     body |-> <<"b">>,
     comments |-> IF k % 2 = 1 THEN <<StageComment(1), StageComment(2)>> ELSE <<>>,
     installation_id |-> 7]

\* a graph run's actuator node stages a review
OutboxStage ==
    /\ Len(outbox) < MaxRows
    /\ outbox' = StageInsert(outbox, StagedReview(Len(outbox) + 1), FALSE).rows
    /\ UNCHANGED <<dispVars, nonDispVars>>

\* The request arrives; its token is taken from the header; ok: authorized(req)
BatchReceive(b, ok) ==
    \E hdr \in Headers :
        /\ authorizedToken(TokenOf(hdr)) = ok
        /\ bToken' = [bToken EXCEPT ![b] = TokenOf(hdr)]

\* if (!authorized(req)) return 403
BatchForbidden(b) ==
    /\ bPc[b] = "start"
    /\ BatchReceive(b, FALSE)
    /\ bPc' = [bPc EXCEPT ![b] = "done"]
    /\ bResponse' = [bResponse EXCEPT ![b] = "forbidden"]
    /\ UNCHANGED <<bRows, bResults, bPending, reviewIssued, updateFailed, bLimit,
                   outbox, nonDispVars>>

\* limit = body.limit when it is a number in 1..50, DEFAULT_BATCH otherwise
BatchLimit(bodyLimit) ==
    IF bodyLimit > 0 /\ bodyLimit <= 50 THEN bodyLimit ELSE DEFAULT_BATCH

\* OutboundAction.findAll({where: {status: "staged"}, order: id ASC, limit}):
\* the rows as read, row.toJSON()
SelectStaged(rows, limit) ==
    LET staged == SelectSeq(rows, LAMBDA r : r.status = "staged")
    IN  SubSeq(staged, 1, Min(limit, Len(staged)))

\* the findAll and the empty-batch return
BatchSelect(b) ==
    /\ bPc[b] = "start"
    /\ BatchReceive(b, TRUE)
    /\ \E bodyLimit \in {0, 1, 2} :
         LET rows == SelectStaged(outbox, BatchLimit(bodyLimit))
         IN  /\ bLimit' = [bLimit EXCEPT ![b] = BatchLimit(bodyLimit)]
             /\ bRows' = [bRows EXCEPT ![b] = rows]
             /\ IF rows = <<>>
                THEN /\ bPc' = [bPc EXCEPT ![b] = "done"]
                     /\ bResponse' = [bResponse EXCEPT ![b] = "empty"]
                ELSE /\ bPc' = [bPc EXCEPT ![b] = "loop"]
                     /\ UNCHANGED bResponse
    /\ UNCHANGED <<bResults, bPending, reviewIssued, updateFailed,
                   outbox, nonDispVars>>

\* findAll raised: the fatal catch, status 500
BatchFatal(b) ==
    /\ bPc[b] = "start"
    /\ BatchReceive(b, TRUE)
    /\ bPc' = [bPc EXCEPT ![b] = "done"]
    /\ bResponse' = [bResponse EXCEPT ![b] = "fatal"]
    /\ UNCHANGED <<bRows, bResults, bPending, reviewIssued, updateFailed, bLimit,
                   outbox, nonDispVars>>

\* the row the loop of batch b stands at
CurrentRow(b) == bRows[b][Len(bResults[b]) + 1]

\* dispatchOneOutboundAction up to pulls.createReview: getOctoForAction,
\* validateReviewComments (pulls.listFiles, only with comments), createReview
DispatchReview(b) ==
    /\ bPc[b] = "loop"
    /\ LET a == CurrentRow(b)
       IN  \/ /\ bPending' = [bPending EXCEPT ![b] = "client"]
              /\ UNCHANGED reviewIssued
           \/ /\ a.payload.comments # <<>>
              /\ bPending' = [bPending EXCEPT ![b] = "validate"]
              /\ UNCHANGED reviewIssued
           \/ /\ bPending' = [bPending EXCEPT ![b] = "review"]
              /\ reviewIssued' = [reviewIssued EXCEPT ![a.id] = @ + 1]
           \/ /\ bPending' = [bPending EXCEPT ![b] = "created"]
              /\ reviewIssued' = [reviewIssued EXCEPT ![a.id] = @ + 1]
    /\ bPc' = [bPc EXCEPT ![b] = "mark"]
    /\ UNCHANGED <<bRows, bResults, bResponse, updateFailed, bToken, bLimit, outbox,
                   nonDispVars>>

\* The message of an error raised at `stage` of a dispatch, as a sequence of
\* units: a short one, or one longer than last_error may be.
ErrorMessage(stage, long) ==
    IF long THEN <<stage>> \o [k \in 1..LAST_ERROR_CHARS |-> "more"] ELSE <<stage>>

\* message.slice(0, 1000)
SliceError(msg) == SubSeq(msg, 1, Min(Len(msg), LAST_ERROR_CHARS))

\* A mutant: the attempt count is not raised.
MarkErrorSameCount(rows, a, msg) ==
    [rows EXCEPT ![a.id] = [@ EXCEPT !.status = "error",
                                     !.last_error = SliceError(msg)]]

\* OutboundAction.update({status: "error", attempt_count: (a.attempt_count ?? 0) + 1,
\* last_error: message.slice(0, 1000)}, {where: {id}}), in the catch of
\* dispatchOneOutboundAction and in the catch of the route's loop
MarkError(rows, a, msg) ==
    [rows EXCEPT ![a.id] = [@ EXCEPT !.status = "error",
                                     !.attempt_count = a.attempt_count + 1,
                                     !.last_error = SliceError(msg)]]

\* OutboundAction.update({status: "dispatched", last_error: null}, {where: {id}})
MarkDispatched(rows, a) ==
    [rows EXCEPT ![a.id] = [@ EXCEPT !.status = "dispatched", !.last_error = <<>>]]

\* results.push(...) and the end of the loop: the response once every row is done
PushResult(b, res) ==
    /\ bResults' = [bResults EXCEPT ![b] = Append(@, res)]
    /\ IF Len(bResults[b]) + 1 = Len(bRows[b])
       THEN /\ bPc' = [bPc EXCEPT ![b] = "done"]
            /\ bResponse' = [bResponse EXCEPT ![b] = "ok"]
       ELSE /\ bPc' = [bPc EXCEPT ![b] = "loop"]
            /\ UNCHANGED bResponse

\* a status update of row a may raise a database error
UpdateMayRaise(a) == a.id \in updateFailed \/ Cardinality(updateFailed) < MaxFaultyRows

\* A mutant: the loop has no try/catch of its own, so an error that
\* dispatchOneOutboundAction raises ends the batch in the fatal catch.
RowCatchRethrows(b, a, msg, updateRaised) ==
    /\ bPc' = [bPc EXCEPT ![b] = "done"]
    /\ bResponse' = [bResponse EXCEPT ![b] = "fatal"]
    /\ updateFailed' = IF updateRaised THEN updateFailed \cup {a.id}
                       ELSE updateFailed
    /\ UNCHANGED <<bResults, outbox>>

\* The catch of the route's loop, entered when dispatchOneOutboundAction raised
\* msg (updateRaised: it was a status update of its own that raised): a
\* best-effort status update to error, whose own failure is swallowed, and
\* results.push({id, ok: false, error: msg})
RowCatch(b, a, msg, updateRaised) ==
    /\ \E markOk \in BOOLEAN :
         /\ ~markOk => UpdateMayRaise(a)
         /\ outbox' = IF markOk THEN MarkError(outbox, a, msg) ELSE outbox
         /\ updateFailed' = IF markOk /\ ~updateRaised THEN updateFailed
                            ELSE updateFailed \cup {a.id}
    /\ PushResult(b, [id |-> a.id, ok |-> FALSE, error |-> msg])

\* the rest of dispatchOneOutboundAction for the row (the status update after
\* createReview, or its catch), the catch of the route's loop, and results.push
DispatchMark(b) ==
    /\ bPc[b] = "mark"
    /\ \E long \in BOOLEAN :
       LET a == CurrentRow(b)
           pending == bPending[b]
           msg == ErrorMessage(pending, long)
           db == ErrorMessage("db", long)
       IN  \/ \* the review was created and the row is marked dispatched
              /\ pending = "created"
              /\ outbox' = MarkDispatched(outbox, a)
              /\ PushResult(b, [id |-> a.id, ok |-> TRUE, error |-> <<>>])
              /\ UNCHANGED updateFailed
           \/ \* the update to dispatched raised: the catch marks the row error
              /\ pending = "created" /\ UpdateMayRaise(a)
              /\ outbox' = MarkError(outbox, a, db)
              /\ PushResult(b, [id |-> a.id, ok |-> FALSE, error |-> db])
              /\ updateFailed' = updateFailed \cup {a.id}
           \/ \* createReview raised: the catch marks the row error
              /\ pending = "review"
              /\ outbox' = MarkError(outbox, a, msg)
              /\ PushResult(b, [id |-> a.id, ok |-> FALSE, error |-> msg])
              /\ UNCHANGED updateFailed
           \/ \* the update in the catch raised as well: the error leaves the function
              /\ pending \in {"created", "review"} /\ UpdateMayRaise(a)
              /\ RowCatch(b, a, db, TRUE)
           \/ \* getOctoForAction or validateReviewComments raised (outside the try)
              /\ pending \in {"client", "validate"}
              /\ RowCatch(b, a, msg, FALSE)
    /\ bPending' = [bPending EXCEPT ![b] = "none"]
    /\ UNCHANGED <<bRows, reviewIssued, bToken, bLimit, nonDispVars>>

InitOutbox ==
    /\ InitRun(NumRecords)
    /\ outbox = <<>>
    /\ InitStage
    /\ InitDispatch(Batches)
    /\ InitSolve
    /\ InitAnchor
    /\ InitPolicy
    /\ InitComments
    /\ InitRetry
    /\ InitResolve

\* the steps of dispatch-outbox request b
Batch(b) ==
    \/ BatchForbidden(b)
    \/ BatchSelect(b)
    \/ BatchFatal(b)
    \/ DispatchReview(b)
    \/ DispatchMark(b)

NextOutbox ==
    \/ OutboxStage
    \/ \E b \in Batches : Batch(b)

SpecOutbox == InitOutbox /\ [][NextOutbox]_vars

InitDispatchers ==
    /\ InitRun(NumRecords)
    /\ outbox = <<>>
    /\ InitStage
    /\ InitDispatch(Dispatchers)
    /\ InitSolve
    /\ InitAnchor
    /\ InitPolicy
    /\ InitComments
    /\ InitRetry
    /\ InitResolve

NextDispatch ==
    \/ OutboxStage
    \/ \E b \in Dispatchers : Batch(b)

SpecDispatch == InitDispatchers /\ [][NextDispatch]_vars

(***************************************************************************)
(* Claims about the dispatcher.                                            *)
(***************************************************************************)
(* SpecAuth: the entry of both triggers with concurrent requests: the      *)
(* authorization check, then the claim of a row (graph-run) or the         *)
(* selection of the batch (dispatch-outbox).                               *)
(***************************************************************************)
NextAuth ==
    \/ \E p \in Runs :
          \/ Forbidden(p)
          \/ ClaimFind(p)
          \/ ClaimIdle(p)
          \/ ClaimCommit(p)
          \/ ClaimError(p)
    \/ OutboxStage
    \/ \E b \in Batches :
          \/ BatchForbidden(b)
          \/ BatchSelect(b)
          \/ BatchFatal(b)

SpecAuth == Init /\ [][NextAuth]_vars

\* the credential a header carries: the bearer token, or the bare value
Credential(hdr) ==
    IF Len(hdr) = 2 /\ hdr[1] = "Bearer " THEN <<hdr[2]>>
    ELSE IF Len(hdr) = 1 /\ hdr[1] # "Bearer " THEN hdr
    ELSE <<>>

\* C16: both triggers reject every request whose credential does not match the
\* shared secret: such a request is answered forbidden and has claimed no row and
\* selected no batch; and the step that rejects a request changes no row of
\* build_failures, stages nothing and dispatches nothing.
C16_Unauthenticated ==
    /\ [](/\ \A p \in Runs :
               (authorization[p] # NoHeader
                   /\ Credential(authorization[p]) # <<CRON_SECRET>>)
                   => response[p] = "forbidden" /\ f[p] = 0
          /\ \A b \in Batches :
               (bToken[b] # NoHeader /\ Credential(bToken[b]) # <<CRON_SECRET>>)
                   => bResponse[b] = "forbidden" /\ bRows[b] = <<>>)
    /\ [][(\/ \E p \in Runs : response[p] = "none" /\ response'[p] = "forbidden"
           \/ \E b \in Batches : bResponse[b] = "none" /\ bResponse'[b] = "forbidden")
            => UNCHANGED <<fstatus, rowLock, f, fixRecs, outbox, bRows, bResults,
                           reviewIssued>>]_vars

\* A graph-run request and a dispatch request with the wrong token were rejected
\* while a row was new and an action was staged.
C16_Witness ==
    /\ \E p \in Runs :
          response[p] = "forbidden" /\ authorization[p] = <<"Bearer ", "x">>
    /\ \E b \in Batches : bResponse[b] = "forbidden" /\ bToken[b] = <<"x">>
    /\ \E r \in Records : fstatus[r] = "new"
    /\ \E i \in DOMAIN outbox : outbox[i].status = "staged"

(***************************************************************************)
\* C2: each staged action is published exactly once.  However the dispatch
\* batches follow or overlap each other, pulls.createReview is issued at most once
\* for a row (rows one of whose status updates raised a database error aside).
C2_PublishedOnce ==
    \A id \in 1..MaxRows : id \notin updateFailed => reviewIssued[id] <= 1

RowIds(rows) == {rows[k].id : k \in DOMAIN rows}

\* what the step that pushes a result for a row has done to the row
MarkedAsClaimed(b) ==
    LET k == Len(bResults'[b])
        res == bResults'[b][k]
        a == bRows[b][k]
    IN  /\ res.id = a.id
        /\ res.ok =>
              (outbox'[a.id].status = "dispatched" /\ bPending[b] = "created")
        /\ (~res.ok /\ Head(res.error) \in {"client", "validate", "review"}
                /\ a.id \notin updateFailed') =>
              /\ outbox'[a.id].status = "error"
              /\ outbox'[a.id].attempt_count = a.attempt_count + 1
              /\ outbox'[a.id].last_error = SliceError(res.error)

\* C8: dispatch isolation.  A batch that selected rows never ends in the fatal
\* catch and its response carries one result per selected row, in order: a row
\* whose dispatch raised an error (client resolution, comment validation, review
\* creation) does not keep the other rows from being dispatched.  The step that
\* ends a row's dispatch leaves the row `dispatched`, its review created, when the
\* dispatch succeeded, and `error` with that error and the attempt count of the
\* selected row plus one when it raised (the status update having gone through).
C8_DispatchIsolation ==
    /\ [](\A b \in DOMAIN bPc :
            /\ bResponse[b] = "fatal" => bRows[b] = <<>>
            /\ Len(bResults[b]) <= Len(bRows[b])
            /\ (bPc[b] = "done" /\ bResponse[b] = "ok") =>
                  /\ Len(bResults[b]) = Len(bRows[b])
                  /\ \A k \in DOMAIN bRows[b] : bResults[b][k].id = bRows[b][k].id)
    /\ [][\A b \in DOMAIN bPc :
            Len(bResults'[b]) = Len(bResults[b]) + 1 => MarkedAsClaimed(b)]_vars

\* A batch of two rows has returned: the dispatch of its first row raised an
\* error and the row is `error` with attempt count 1, the second row is
\* `dispatched`.
C8_Witness ==
    \E b \in DOMAIN bPc :
        /\ bPc[b] = "done" /\ bResponse[b] = "ok" /\ Len(bResults[b]) = 2
        /\ ~bResults[b][1].ok
        /\ Head(bResults[b][1].error) \in {"client", "validate", "review"}
        /\ bResults[b][2].ok
        /\ outbox[bRows[b][1].id].status = "error"
        /\ outbox[bRows[b][1].id].attempt_count = 1
        /\ outbox[bRows[b][2].id].status = "dispatched"

\* C9: no automatic retry.  Once a row is `error` or `dispatched`, no step of the
\* dispatcher selects it into a batch or issues pulls.createReview for it.
C9_NoAutomaticRetry ==
    [][\A id \in DOMAIN outbox :
          outbox[id].status \in {"error", "dispatched"} =>
              /\ reviewIssued'[id] = reviewIssued[id]
              /\ \A b \in Batches : bRows'[b] # bRows[b] => id \notin RowIds(bRows'[b])]_vars

\* C20: OutboundAction rows are created only by staging, never deleted, and
\* changed only by the dispatcher: a row keeps its hash, payload and installation
\* id, staging leaves the rows that exist as they are, and a row's status changes
\* only from staged to dispatched or from staged to error.
C20_OutboxFrame ==
    [][/\ \A id \in DOMAIN outbox :
            /\ id \in DOMAIN outbox'
            /\ outbox'[id].action_hash = outbox[id].action_hash
            /\ outbox'[id].payload = outbox[id].payload
            /\ outbox'[id].installation_id = outbox[id].installation_id
            /\ outbox'[id].status # outbox[id].status =>
                  /\ outbox[id].status = "staged"
                  /\ outbox'[id].status \in {"dispatched", "error"}
       /\ Len(outbox') > Len(outbox) =>
            /\ \A id \in DOMAIN outbox : outbox'[id] = outbox[id]
            /\ \A id \in DOMAIN outbox' \ DOMAIN outbox :
                  outbox'[id].status = "staged" /\ outbox'[id].attempt_count = 0]_vars

\* C29: dispatch bookkeeping.  The step that selects a batch reads at most
\* limit rows, each of them staged, in ascending id order, and leaves out no
\* staged row of a lower id than one it took.  The step that ends a row's
\* dispatch (its status update having gone through) leaves the row dispatched
\* with last_error cleared and its attempt count as it was when the dispatch
\* succeeded, and error with the attempt count raised by exactly one and the
\* first LAST_ERROR_CHARS units of the error text at most when it failed.
C29_DispatchBookkeeping ==
    [][\A b \in DOMAIN bPc :
          /\ (bPc[b] = "start" /\ bLimit'[b] # bLimit[b]) =>
                LET rows == bRows'[b]
                IN  /\ Len(rows) <= bLimit'[b]
                    /\ \A k \in DOMAIN rows :
                          /\ rows[k].id \in DOMAIN outbox
                          /\ rows[k] = outbox[rows[k].id]
                          /\ rows[k].status = "staged"
                          /\ k < Len(rows) => rows[k].id < rows[k + 1].id
                    /\ \A id \in DOMAIN outbox :
                          (outbox[id].status = "staged" /\ id \notin RowIds(rows)) =>
                              /\ Len(rows) = bLimit'[b]
                              /\ \A k \in DOMAIN rows : rows[k].id < id
          /\ Len(bResults'[b]) = Len(bResults[b]) + 1 =>
                LET res == bResults'[b][Len(bResults'[b])]
                    id == bRows[b][Len(bResults'[b])].id
                IN  id \notin updateFailed' =>
                        IF res.ok
                        THEN /\ outbox'[id].status = "dispatched"
                             /\ outbox'[id].last_error = <<>>
                             /\ outbox'[id].attempt_count = outbox[id].attempt_count
                        ELSE /\ outbox'[id].status = "error"
                             /\ outbox'[id].attempt_count = outbox[id].attempt_count + 1
                             /\ Len(outbox'[id].last_error) <= LAST_ERROR_CHARS
                             /\ outbox'[id].last_error =
                                   SubSeq(res.error, 1, Len(outbox'[id].last_error))]_vars

\* C37: dispatched means published.  The step that ends a row's dispatch leaves
\* the row dispatched exactly when pulls.createReview returned for it: a row is
\* not dispatched without a created review, and a row whose review was created
\* is dispatched (not error, not staged).
C37_DispatchedIffCreated ==
    [][\A b \in DOMAIN bPc :
          Len(bResults'[b]) = Len(bResults[b]) + 1 =>
              LET id == bRows[b][Len(bResults'[b])].id
              IN  outbox'[id].status = "dispatched" <=> bPending[b] = "created"]_vars

(***************************************************************************)
(* SpecSolve: the tool-calling loop of one solveFailure invocation         *)
(* (solutions.ts).                                                         *)
(***************************************************************************)
\* time llm.invoke and a tool execution may take, in time units
LlmDurations == {0, 1}
ToolDurations == {0, 1, 2}

KnownTools == {"list_pr_files", "fetch_slice", "code_search"}

AiMessage(cs) == [kind |-> "ai", calls |-> cs, tool_call_id |-> 0, content |-> ""]

ToolMessage(id, c) == [kind |-> "tool", calls |-> <<>>, tool_call_id |-> id, content |-> c]

\* the tool calls of an AI message asking for the tools `names`; the provider
\* gives every call an id of its own
ToolCallsOf(names, firstId) ==
    [k \in 1..Len(names) |-> [id |-> firstId + k - 1, name |-> names[k]]]

TurnNames == UNION {[1..n -> ToolNames] : n \in 0..MaxTurnCalls}

\* A mutant: the loop is bounded by time only.
LoopTestTimeOnly == elapsed < MAX_TOOL_MS

\* while (toolCalls < MAX_TOOL_CALLS && Date.now() - started < MAX_TOOL_MS)
LoopTest == toolCalls < MAX_TOOL_CALLS /\ elapsed < MAX_TOOL_MS

\* ai = await llm.invoke(messages); messages.push(ai); if (!calls.length) break
ModelTurn ==
    /\ svPc = "loop"
    /\ LoopTest
    /\ \E dt \in LlmDurations, names \in TurnNames :
         LET cs == ToolCallsOf(names, toolCalls + 1)
         IN  /\ elapsed' = elapsed + dt
             /\ messages' = Append(messages, AiMessage(cs))
             /\ calls' = cs
             /\ svPc' = IF cs = <<>> THEN "final" ELSE "tools"
    /\ UNCHANGED <<toolCalls, toolCounts, toolTimeMs, toolInvocations, nonSolveVars>>

\* llm.invoke raised: solveFailure rejects
LlmThrows ==
    /\ svPc = "loop"
    /\ LoopTest
    /\ svPc' = "failed"
    /\ UNCHANGED <<messages, calls, toolCalls, elapsed, toolCounts, toolTimeMs,
                   toolInvocations, nonSolveVars>>

\* the while test fails: a budget is used up
LoopExit ==
    /\ svPc = "loop"
    /\ ~LoopTest
    /\ svPc' = "final"
    /\ UNCHANGED <<messages, calls, toolCalls, elapsed, toolCounts, toolTimeMs,
                   toolInvocations, nonSolveVars>>

\* A mutant: a call denied for budget gets no ToolMessage.
ToolReplyUnlessDenied(msgs, tc, content) ==
    IF tc.id # 0 /\ content # "budget_exhausted"
    THEN Append(msgs, ToolMessage(tc.id, content))
    ELSE msgs

\* if (tc.id) messages.push(new ToolMessage({tool_call_id: tc.id, content}))
ToolReply(msgs, tc, content) ==
    IF tc.id # 0 THEN Append(msgs, ToolMessage(tc.id, content)) ELSE msgs

\* A mutant: only the global budgets are checked.
BudgetOverGlobalOnly(name) ==
    toolCalls >= MAX_TOOL_CALLS \/ elapsed >= MAX_TOOL_MS

\* globalOver || perToolOver for a call of tool `name`
BudgetOver(name) ==
    \/ toolCalls >= MAX_TOOL_CALLS \/ elapsed >= MAX_TOOL_MS
    \/ toolCounts[name] >= MAX_PER_TOOL_CALLS \/ toolTimeMs[name] >= MAX_PER_TOOL_MS

\* A mutant: a denied call is answered but neither recorded nor counted.
RecordExecutedAndReply(tc, content, ms) ==
    /\ toolInvocations' =
          IF content = "budget_exhausted" THEN toolInvocations
          ELSE Append(toolInvocations, [name |-> tc.name, ms |-> ms, ok |-> content = "ok"])
    /\ toolCounts' = IF content = "budget_exhausted" THEN toolCounts
                     ELSE [toolCounts EXCEPT ![tc.name] = @ + 1]
    /\ toolTimeMs' = [toolTimeMs EXCEPT ![tc.name] = @ + ms]
    /\ toolCalls' = IF content = "budget_exhausted" THEN toolCalls ELSE toolCalls + 1
    /\ elapsed' = elapsed + ms
    /\ messages' = ToolReply(messages, tc, content)

\* Record usage (counted even if the call was denied) and reply
RecordAndReply(tc, content, ms) ==
    /\ toolInvocations' = Append(toolInvocations,
                                 [name |-> tc.name, ms |-> ms, ok |-> content = "ok"])
    /\ toolCounts' = [toolCounts EXCEPT ![tc.name] = @ + 1]
    /\ toolTimeMs' = [toolTimeMs EXCEPT ![tc.name] = @ + ms]
    /\ toolCalls' = toolCalls + 1
    /\ elapsed' = elapsed + ms
    /\ messages' = ToolReply(messages, tc, content)

\* one iteration of for (const tc of calls): the budget check, the execution of
\* the tool (which may return a result, return or raise an error) and the reply
ToolCall ==
    /\ svPc = "tools"
    /\ LET tc == Head(calls)
       IN  IF BudgetOver(tc.name)
           THEN RecordAndReply(tc, "budget_exhausted", 0)
           ELSE IF tc.name \in KnownTools
           THEN \E ms \in ToolDurations, content \in {"ok", "error"} :
                    RecordAndReply(tc, content, ms)
           ELSE RecordAndReply(tc, "error", 0)
    /\ calls' = Tail(calls)
    /\ svPc' = IF Tail(calls) = <<>> THEN "loop" ELSE "tools"
    /\ UNCHANGED nonSolveVars

\* Safety net: if the last message is an AI message with tool calls, answer them
SafetyNet(msgs) ==
    IF msgs # <<>> /\ msgs[Len(msgs)].kind = "ai"
    THEN LET cs == SelectSeq(msgs[Len(msgs)].calls, LAMBDA tc : tc.id # 0)
         IN  msgs \o [k \in 1..Len(cs) |->
                        ToolMessage(cs[k].id, "unanswered_tool_call_safety_net")]
    ELSE msgs

\* the safety net, then finalModel.invoke([...messages, policyHint])
FinalCall ==
    /\ svPc = "final"
    /\ messages' = SafetyNet(messages)
    /\ svPc' = "done"
    /\ UNCHANGED <<calls, toolCalls, elapsed, toolCounts, toolTimeMs, toolInvocations,
                   nonSolveVars>>

InitSolver ==
    /\ InitRun(NumRecords)
    /\ outbox = <<>>
    /\ InitStage
    /\ InitDispatch(Batches)
    /\ InitSolve
    /\ InitAnchor
    /\ InitPolicy
    /\ InitComments
    /\ InitRetry
    /\ InitResolve

NextSolve == ModelTurn \/ LlmThrows \/ LoopExit \/ ToolCall \/ FinalCall

SpecSolve == InitSolver /\ [][NextSolve]_vars

(***************************************************************************)
(* Claims about the tool loop.                                             *)
(***************************************************************************)
AiTurns == {i \in DOMAIN messages : messages[i].kind = "ai"}

ToolReplies == {j \in DOMAIN messages : messages[j].kind = "tool"}

RequestIds(i) == {messages[i].calls[k].id : k \in DOMAIN messages[i].calls}

RepliesTo(id) == {j \in ToolReplies : messages[j].tool_call_id = id}

\* the model turn a message at j follows
TurnBefore(j) == CHOOSE i \in AiTurns : i < j /\ \A h \in AiTurns : h < j => h <= i

\* C7: request/response pairing.  Every tool message answers a request of the
\* model turn just before it; no request is answered twice; while the requests
\* of a turn are being handled exactly the handled ones are answered; and at
\* every model turn, at the final structured-output call and after it, each
\* request emitted so far has exactly one response, whether the tool ran, failed
\* or was denied for budget.
C7_RequestResponsePairing ==
    /\ \A j \in ToolReplies :
          /\ \E i \in AiTurns : i < j
          /\ messages[j].tool_call_id \in RequestIds(TurnBefore(j))
    /\ \A i \in AiTurns : \A id \in RequestIds(i) : Cardinality(RepliesTo(id)) <= 1
    /\ \A i \in AiTurns : \A id \in RequestIds(i) :
          IF svPc = "tools" /\ \E k \in DOMAIN calls : calls[k].id = id
          THEN RepliesTo(id) = {}
          ELSE Cardinality(RepliesTo(id)) = 1

\* The final call was made after a conversation in which one tool request was
\* executed, one failed and one was denied for budget, each answered.
C7_Witness ==
    /\ svPc = "done"
    /\ \E j \in ToolReplies : messages[j].content = "ok"
    /\ \E j \in ToolReplies : messages[j].content = "error"
    /\ \E j \in ToolReplies : messages[j].content = "budget_exhausted"

\* the tool requests of the conversation, in the order the model made them
RECURSIVE Requests(_)
Requests(msgs) ==
    IF msgs = <<>> THEN <<>>
    ELSE Requests(SubSeq(msgs, 1, Len(msgs) - 1)) \o msgs[Len(msgs)].calls

\* the tool messages of the conversation, in order
Replies == SelectSeq(messages, LAMBDA m : m.kind = "tool")

\* the requests that were executed: answered with something else than the
\* budget placeholder
Executed == {k \in DOMAIN Replies : Replies[k].content # "budget_exhausted"}

C27_DeniedRecorded ==
    /\ [](LET reqs == Requests(messages)
              pending == IF svPc = "tools" THEN Len(calls) ELSE 0
          IN  /\ Len(toolInvocations) = Len(reqs) - pending
              /\ Len(toolInvocations) = Len(Replies)
              /\ toolCalls = Len(toolInvocations)
              /\ \A k \in DOMAIN toolInvocations :
                    /\ toolInvocations[k].name = reqs[k].name
                    /\ Replies[k].tool_call_id = reqs[k].id
                    /\ Replies[k].content = "budget_exhausted" =>
                          (~toolInvocations[k].ok /\ toolInvocations[k].ms = 0)
              /\ \A n \in ToolNames :
                    toolCounts[n] =
                        Cardinality({k \in DOMAIN toolInvocations :
                                        toolInvocations[k].name = n}))
    /\ [][(svPc = "tools" /\ BudgetOver(Head(calls).name)) =>
            LET tc == Head(calls)
            IN  /\ messages' = Append(messages, ToolMessage(tc.id, "budget_exhausted"))
                /\ toolInvocations' =
                      Append(toolInvocations, [name |-> tc.name, ms |-> 0, ok |-> FALSE])
                /\ toolCalls' = toolCalls + 1
                /\ toolCounts' = [toolCounts EXCEPT ![tc.name] = @ + 1]]_vars

\* A denied request was recorded and counted, taking its tool's counter above
\* the per-tool ceiling, and a later request was recorded after it.
C27_Witness ==
    \E k \in DOMAIN toolInvocations :
        /\ Replies[k].content = "budget_exhausted"
        /\ ~toolInvocations[k].ok /\ toolInvocations[k].ms = 0
        /\ toolCounts[toolInvocations[k].name] > MAX_PER_TOOL_CALLS
        /\ k < Len(toolInvocations)

\* The scheduling of one solveFailure call: the function runs on as long as a
\* step of it is possible (every await of the model resolves or rejects).
SpecSolveLive == SpecSolve /\ WF_vars(NextSolve)

\* C40: the tool loop terminates.  A model turn either requests no tool (and the
\* loop is left for the final call) or leaves requests, each of which raises the
\* overall call counter by one whether it is executed or denied; so whenever
\* the loop test is evaluated the counter is at least the number of model turns
\* made, at most MAX_TOOL_CALLS model turns are made, and the call ends (with
\* the final call made, or rejected by a failure of the model).
C40_ToolLoopTerminates ==
    /\ [](/\ Cardinality(AiTurns) <= MAX_TOOL_CALLS
          /\ svPc = "loop" => toolCalls >= Cardinality(AiTurns))
    /\ [][/\ (svPc = "loop" /\ Len(messages') = Len(messages) + 1) =>
                 (\/ calls' = <<>> /\ svPc' = "final"
                  \/ calls' # <<>> /\ svPc' = "tools")
          /\ svPc = "tools" => toolCalls' = toolCalls + 1]_vars
    /\ <>(svPc \in {"done", "failed"})

\* The final call was made after MAX_TOOL_CALLS model turns, the last of which
\* had its request denied.
C40_Witness ==
    /\ svPc = "done"
    /\ Cardinality(AiTurns) = MAX_TOOL_CALLS
    /\ Replies # <<>>
    /\ Replies[Len(Replies)].content = "budget_exhausted"

(***************************************************************************)
(* SpecAnchor: the validation of one change in solveFailure: final snap    *)
(* and no-op detection (solutions.ts).  A text is the sequence of its      *)
(* characters; "FENCE" stands for a code fence (three backquotes), "a" for a word character.    *)
(***************************************************************************)
FileChars == {"a", " ", "\n", "\r"}

AfterChars == {"a", " ", "\n", "\r"}

WordChars == {"a"}

\* what \s and String.prototype.trim take for whitespace
SpaceChars == {" ", "\t", "\n", "\r"}

Texts(chars, n) == UNION {[1..k -> chars] : k \in 0..n}

\* proposals wrapped in a suggestion fence
FencedAfters ==
    {<<"FENCE", "a", "\n">> \o t \o <<"\n", "FENCE">> : t \in Texts(AfterChars, 1)}

\* the number of leading characters of s that are in S
LeadLen(s, S) ==
    LET others == {i \in 1..Len(s) : s[i] \notin S}
    IN  IF others = {} THEN Len(s)
        ELSE (CHOOSE i \in others : \A j \in others : i <= j) - 1

\* s.replace(/\r\n/g, "\n")
RECURSIVE toLF(_)
toLF(s) ==
    IF s = <<>> THEN <<>>
    ELSE IF Len(s) >= 2 /\ s[1] = "\r" /\ s[2] = "\n"
    THEN <<"\n">> \o toLF(SubSeq(s, 3, Len(s)))
    ELSE <<s[1]>> \o toLF(Tail(s))

\* s.replace(/[ \t]+/g, " ")
RECURSIVE CollapseBlanks(_)
CollapseBlanks(s) ==
    IF s = <<>> THEN <<>>
    ELSE IF s[1] \in {" ", "\t"}
    THEN <<" ">> \o CollapseBlanks(SubSeq(s, LeadLen(s, {" ", "\t"}) + 1, Len(s)))
    ELSE <<s[1]>> \o CollapseBlanks(Tail(s))

\* s.trim()
Trim(s) ==
    LET lead == LeadLen(s, SpaceChars)
        inner == SubSeq(s, lead + 1, Len(s))
        trail == LeadLen([i \in 1..Len(inner) |-> inner[Len(inner) + 1 - i]], SpaceChars)
    IN  SubSeq(inner, 1, Len(inner) - trail)

\* A mutant: the block is not trimmed.
normalizeBlockNoTrim(s) == CollapseBlanks(toLF(s))

normalizeBlock(s) == Trim(CollapseBlanks(toLF(s)))

\* s.split("\n")
RECURSIVE Split(_)
Split(s) ==
    LET n == LeadLen(s, {"a", " ", "\t", "\r", "FENCE"})
    IN  IF n = Len(s) THEN <<s>>
        ELSE <<SubSeq(s, 1, n)>> \o Split(SubSeq(s, n + 2, Len(s)))

\* lines.join("\n")
RECURSIVE Join(_)
Join(ls) ==
    IF ls = <<>> THEN <<>>
    ELSE IF Len(ls) = 1 THEN ls[1]
    ELSE ls[1] \o <<"\n">> \o Join(Tail(ls))

\* stripFence: an opening fence line (fence, optional language tag, blanks,
\* newline) is removed from the start, a newline and a fence from the end
stripFence(s) ==
    LET rest == IF s = <<>> THEN <<>> ELSE Tail(s)
        afterLang == SubSeq(rest, LeadLen(rest, WordChars) + 1, Len(rest))
        run == LeadLen(afterLang, SpaceChars)
        nls == {i \in 1..run : afterLang[i] = "\n"}
        lastNl == CHOOSE i \in nls : \A j \in nls : j <= i
        out == IF s # <<>> /\ s[1] = "FENCE" /\ nls # {}
               THEN SubSeq(afterLang, lastNl + 1, Len(afterLang))
               ELSE s
    IN  IF Len(out) >= 2 /\ out[Len(out) - 1] = "\n" /\ out[Len(out)] = "FENCE"
        THEN SubSeq(out, 1, Len(out) - 2)
        ELSE out

\* A mutant: the anchor is never moved.
FinalSnapNoScan(full, after, line) == line

\* Final snap: a single-line proposal snaps to the first line within two lines
\* of the line whose normalized text equals the normalized proposal
FinalSnap(full, after, line) ==
    IF after # <<>> /\ \A i \in DOMAIN after : after[i] # "\n"
    THEN LET lines == Split(toLF(full))
             target == normalizeBlock(after)
             hits == {i \in Max(1, line - 2)..Min(Len(lines), line + 2) :
                         normalizeBlock(lines[i]) = target}
         IN  IF hits = {} THEN line ELSE CHOOSE i \in hits : \A j \in hits : i <= j
    ELSE line

\* lines.slice(start - 1, Math.min(end, lines.length)).join("\n")
CurrentWindow(full, start, nLines) ==
    LET lines == Split(full)
        end == Min(start + nLines - 1, Len(lines))
    IN  Join(SubSeq(lines, start, end))

\* A mutant: the window and the proposal are compared as they are.
DetectNoopRaw(full, after, line) ==
    LET proposed == stripFence(after)
        nLines == Max(1, Len(Split(proposed)))
        current == CurrentWindow(full, line, nLines)
    IN  [line |-> line, after |-> proposed, isNoop |-> current = proposed]

\* No-op detection of a change resolved to a line
DetectNoop(full, after, line) ==
    LET proposed == stripFence(after)
        nLines == Max(1, Len(Split(proposed)))
        current == CurrentWindow(full, line, nLines)
    IN  [line |-> line, after |-> proposed,
         isNoop |-> normalizeBlock(current) = normalizeBlock(proposed)]

\* the body of for (const ch of sol.changes) once the match hints are resolved
ValidateChange ==
    /\ anPc = "start"
    /\ IF anLine < 1
       THEN anResult' = [line |-> 0, after |-> anAfter, isNoop |-> FALSE]
       ELSE anResult' = DetectNoop(anFull, anAfter, FinalSnap(anFull, anAfter, anLine))
    /\ anPc' = "done"
    /\ UNCHANGED <<anFull, anAfter, anLine, nonAnchorVars>>

InitChange ==
    /\ InitRun(NumRecords)
    /\ outbox = <<>>
    /\ InitStage
    /\ InitDispatch(Batches)
    /\ InitSolve
    /\ anPc = "start"
    /\ anFull \in Texts(FileChars, MaxFileLen)
    /\ anAfter \in Texts(AfterChars, MaxAfterLen) \cup FencedAfters
    /\ anLine \in 0..MaxAnchorLine
    /\ anResult = NoChange
    /\ InitPolicy
    /\ InitComments
    /\ InitRetry
    /\ InitResolve

NextAnchor == ValidateChange

SpecAnchor == InitChange /\ [][NextAnchor]_vars

(***************************************************************************)
(* Claims about no-op detection.                                           *)
(***************************************************************************)
\* a text with its line endings normalized and each run of blanks collapsed
RECURSIVE WhitespaceNormalized(_)
WhitespaceNormalized(s) ==
    IF s = <<>> THEN <<>>
    ELSE IF Len(s) >= 2 /\ s[1] = "\r" /\ s[2] = "\n"
    THEN WhitespaceNormalized(Tail(s))
    ELSE IF Len(s) >= 2 /\ s[1] \in {" ", "\t"} /\ s[2] \in {" ", "\t"}
    THEN WhitespaceNormalized(Tail(s))
    ELSE <<IF s[1] = "\t" THEN " " ELSE s[1]>> \o WhitespaceNormalized(Tail(s))

\* the non-whitespace tokens of a text
RECURSIVE Tokens(_)
Tokens(s) ==
    LET lead == LeadLen(s, SpaceChars)
        t == SubSeq(s, lead + 1, Len(s))
        n == LeadLen(t, {"a", "FENCE"})
    IN  IF t = <<>> THEN <<>>
        ELSE <<SubSeq(t, 1, n)>> \o Tokens(SubSeq(t, n + 1, Len(t)))

\* the lines of the file, line endings normalized
RECURSIVE FileLines(_)
FileLines(s) ==
    IF \A i \in DOMAIN s : s[i] # "\n" THEN <<s>>
    ELSE LET i == CHOOSE k \in DOMAIN s : s[k] = "\n" /\ \A j \in 1..(k - 1) : s[j] # "\n"
             l == SubSeq(s, 1, i - 1)
         IN  <<IF l # <<>> /\ l[Len(l)] = "\r" THEN SubSeq(l, 1, Len(l) - 1) ELSE l>>
                 \o FileLines(SubSeq(s, i + 1, Len(s)))

\* the current text of the file at the resolved line, over as many lines as
\* the proposal has
CurrentText ==
    LET ls == FileLines(anFull)
        n == Len(FileLines(anResult.after))
        last == Min(anResult.line + n - 1, Len(ls))
    IN  Join([k \in 1..(last - anResult.line + 1) |-> ls[anResult.line + k - 1]])

\* C10: anchor no-op law.  For a change resolved to a line: if the proposed text
\* equals the current text at that line, over as many lines as the proposal has,
\* once line endings are normalized and runs of blanks collapsed, isNoop is true;
\* if the two differ in a non-whitespace token, isNoop is false.
C10_AnchorNoopLaw ==
    (anPc = "done" /\ anResult.line >= 1) =>
        /\ WhitespaceNormalized(CurrentText) = WhitespaceNormalized(anResult.after)
              => anResult.isNoop
        /\ Tokens(CurrentText) # Tokens(anResult.after) => ~anResult.isNoop

\* A change was found to be a no-op although its text differs from the file's
\* in blanks or line endings.
C10_Witness ==
    /\ anPc = "done" /\ anResult.line >= 1 /\ anResult.isNoop
    /\ Tokens(anResult.after) # <<>>
    /\ WhitespaceNormalized(CurrentText) = WhitespaceNormalized(anResult.after)
    /\ CurrentText # anResult.after

(***************************************************************************)
(* SpecResolve: the resolution of the anchor line of one change of a file  *)
(* of the pull request (solutions.ts): full search, nudge, hunk fallback.  *)
(* Lines are 1-based; 0 stands for null.                                   *)
(***************************************************************************)
\* the radius solveFailure passes to nudgeAnchor
NUDGE_RADIUS == 12

HayChars == {"a", "\r", "\n"}

NeedleChars == {"a", " ", "\n"}

\* match.pattern: a literal word, or a pattern that does not compile
Patterns == {<<"a">>, <<"a", "a">>, <<"(">>}

Matches ==
    {[kind |-> "exact", original |-> t, pattern |-> <<>>] : t \in Texts(NeedleChars, MaxNeedleLen)}
        \cup {[kind |-> "regex", original |-> <<>>, pattern |-> t] : t \in Patterns \cup {<<>>}}
        \cup {[kind |-> "nearest_changed_hunk", original |-> <<>>, pattern |-> <<>>]}

\* patches of the file: none, or the right-side starts of its hunk headers
HunkStarts == {<<>>, <<1>>, <<2>>, <<3>>, <<2, 3>>}

\* firstChangedHunkStart: the right-side start of the first header, at least 1
firstChangedHunkStart(patch) ==
    IF patch = <<>> THEN 0 ELSE Max(1, patch[1])

\* s.replace(/[ \t]+$/gm, ""): runs of blanks before a line terminator or the end
RECURSIVE StripTrailingBlanks(_)
StripTrailingBlanks(s) ==
    IF s = <<>> THEN <<>>
    ELSE IF s[1] \in {" ", "\t"}
    THEN LET n == LeadLen(s, {" ", "\t"})
             rest == StripTrailingBlanks(SubSeq(s, n + 1, Len(s)))
         IN  IF n = Len(s) \/ s[n + 1] \in {"\n", "\r"} THEN rest
             ELSE SubSeq(s, 1, n) \o rest
    ELSE <<s[1]>> \o StripTrailingBlanks(Tail(s))

\* hay.indexOf(pin): 0-based, -1 when pin does not occur
IndexOf(hay, pin) ==
    LET at == {i \in 0..(Len(hay) - Len(pin)) : SubSeq(hay, i + 1, i + Len(pin)) = pin}
    IN  IF at = {} THEN -1 ELSE CHOOSE i \in at : \A j \in at : i <= j

\* const collapseWS = (s) => s.replace(/[ \t]+/g, " ").trim()
collapseWS(s) == Trim(CollapseBlanks(s))

\* findLineFuzzy: pass 1 is an exact search, tolerant of trailing blanks of
\* the needle; pass 2 compares whitespace-collapsed lines
findLineFuzzy(content, needle) ==
    IF needle = <<>> THEN 0
    ELSE LET hay1 == toLF(content)
             pin1 == StripTrailingBlanks(toLF(needle))
             idx == IndexOf(hay1, pin1)
             hayLines == Split(hay1)
             pinLines == Split(toLF(needle))
             n == Len(pinLines)
             target == Join([k \in 1..n |-> collapseWS(pinLines[k])])
             hits == {i \in 1..(Len(hayLines) - n + 1) :
                         Join([k \in 1..n |-> collapseWS(hayLines[i + k - 1])]) = target}
         IN  IF idx >= 0 THEN Len(Split(SubSeq(hay1, 1, idx)))
             ELSE IF hits = {} THEN 0
             ELSE CHOOSE i \in hits : \A j \in hits : i <= j

\* nudgeAnchor: the same search over the lines within radius of start
nudgeAnchor(full, original, start, radius) ==
    LET hay == Split(toLF(full))
        from == Max(1, start)
        lo == Max(1, from - radius)
        hi == Min(Len(hay), from + radius)
        windowText == Join(SubSeq(hay, lo, hi))
        hit == findLineFuzzy(windowText, original)
    IN  IF hit # 0 THEN lo + hit - 1 ELSE 0

\* findLineByRegex for a literal pattern; new RegExp raises on "(" and the
\* catch returns null
findLineByRegex(content, pattern) ==
    IF pattern = <<>> \/ \E i \in DOMAIN pattern : pattern[i] = "("
    THEN 0
    ELSE LET idx == IndexOf(content, pattern)
         IN  IF idx < 0 THEN 0 ELSE Len(Split(SubSeq(content, 1, idx)))

\* the branch of the resolution a match takes
Branch(match) ==
    IF match.kind = "exact" /\ match.original # <<>> THEN "exact"
    ELSE IF match.kind = "regex" /\ match.pattern # <<>> THEN "regex"
    ELSE "none"

\* let line = ch.anchor?.line ?? null, then the search of the hint over the file
Search ==
    /\ rsPc = "start"
    /\ LET found == IF Branch(rsMatch) = "exact"
                    THEN findLineFuzzy(rsFull, rsMatch.original)
                    ELSE IF Branch(rsMatch) = "regex"
                    THEN findLineByRegex(rsFull, rsMatch.pattern)
                    ELSE 0
       IN  /\ rsLine' = IF found # 0 THEN found ELSE rsGuess
           /\ rsPc' = IF Branch(rsMatch) = "exact" /\ found = 0 /\ rsGuess # 0
                      THEN "nudge" ELSE "fallback"
    /\ UNCHANGED <<rsFull, rsMatch, rsGuess, rsPatch, rsNudged, nonResolveVars>>

\* const nudged = nudgeAnchor(full, match.original, line, 12); if (nudged) line = nudged
Nudge ==
    /\ rsPc = "nudge"
    /\ rsNudged' = nudgeAnchor(rsFull, rsMatch.original, rsLine, NUDGE_RADIUS)
    /\ rsLine' = IF rsNudged' # 0 THEN rsNudged' ELSE rsLine
    /\ rsPc' = "fallback"
    /\ UNCHANGED <<rsFull, rsMatch, rsGuess, rsPatch, nonResolveVars>>

\* if (!line || line < 1) line = firstChangedHunkStart(meta.patch), with
\* line <= 1 in the branch without a hint
Fallback ==
    /\ rsPc = "fallback"
    /\ rsLine' = IF rsLine < 1 \/ (Branch(rsMatch) = "none" /\ rsLine <= 1)
                 THEN firstChangedHunkStart(rsPatch)
                 ELSE rsLine
    /\ rsPc' = "done"
    /\ UNCHANGED <<rsFull, rsMatch, rsGuess, rsPatch, rsNudged, nonResolveVars>>

InitAnchorResolution ==
    /\ InitRun(NumRecords)
    /\ outbox = <<>>
    /\ InitStage
    /\ InitDispatch(Batches)
    /\ InitSolve
    /\ InitAnchor
    /\ InitPolicy
    /\ InitComments
    /\ InitRetry
    /\ rsPc = "start"
    /\ rsFull \in Texts(HayChars, MaxHayLen)
    /\ rsMatch \in Matches
    /\ rsGuess \in 0..MaxGuess
    /\ rsPatch \in HunkStarts
    /\ rsNudged = 0
    /\ rsLine = 0

NextResolve == Search \/ Nudge \/ Fallback

SpecResolve == InitAnchorResolution /\ [][NextResolve]_vars

\* the hint of the change resolved a line: the full search or the nudge did
HintResolved ==
    \/ Branch(rsMatch) = "exact" /\ findLineFuzzy(rsFull, rsMatch.original) # 0
    \/ Branch(rsMatch) = "exact" /\ rsNudged # 0
    \/ Branch(rsMatch) = "regex" /\ findLineByRegex(rsFull, rsMatch.pattern) # 0

\* C31: hunk fallback.  When the hint of a change resolved nothing or its kind
\* is nearest_changed_hunk, the resolved line is the right-side start of the
\* first hunk header of the file's patch, whatever line the model guessed.
C31_HunkFallback ==
    (rsPc = "done" /\ rsPatch # <<>>
       /\ (~HintResolved \/ rsMatch.kind = "nearest_changed_hunk")) =>
        rsLine = rsPatch[1]

\* C38: the nudge never resolves what the full search missed.  When
\* findLineFuzzy over the whole file finds no line, nudgeAnchor around the
\* guess finds none either, and the nudge step leaves the line as it was.
C38_NudgeNeverResolves ==
    /\ [](findLineFuzzy(rsFull, rsMatch.original) = 0 => rsNudged = 0)
    /\ [][rsPc = "nudge" => rsLine' = rsLine]_vars

\* a line, or a one-line proposal, normalized: blanks collapsed, ends trimmed
LineNormalized(s) == Trim(WhitespaceNormalized(s))

\* hunk.after is given and has no line break
SingleLineProposal == anAfter # <<>> /\ \A i \in DOMAIN anAfter : anAfter[i] # "\n"

\* the lines within 2 of the resolved line, clipped to the file, that equal the
\* one-line proposal once normalized
SnapHits ==
    {i \in Max(1, anLine - 2)..Min(Len(FileLines(anFull)), anLine + 2) :
        LineNormalized(FileLines(anFull)[i]) = LineNormalized(anAfter)}

Risks == {"low", "high"}

\* file names of pulls.listFiles
PrPaths == {"a.ts"}

\* One change of the parsed output, with what its validation will find:
\*   path     ch.path
\*   anchor   ch.anchor.line as the model gave it (0: null)
\*   line     the line after the match hints and the final snap (0: none)
\*   applies  ch.validation.appliesCleanly
\*   same     the window at the line equals the proposal once normalized
SolChanges ==
    {c \in [path : {"a.ts", "b.ts"}, anchor : {0, 1}, line : {0, 1},
            applies : BOOLEAN, same : BOOLEAN] :
        /\ c.path \notin PrPaths => c.line = 0
        /\ c.line = 0 => ~c.same
        /\ c.line # 0 => c.anchor = 0}

\* SolutionsSchema.parse(result): policy.autoSuggestionEligible is required
ParsedSolutions ==
    [confidence : Confidences, risk : Risks,
     policy : [autoSuggestionEligible : BOOLEAN],
     changes : UNION {[1..n -> SolChanges] : n \in 0..MaxChanges}]

\* the entry of validatedChanges for ch
ValidatedChange(ch) ==
    IF ch.path \notin PrPaths
    THEN [path |-> ch.path, anchor |-> ch.anchor, appliesCleanly |-> ch.applies,
          isNoop |-> TRUE, type |-> "diagnosis"]
    ELSE IF ch.line < 1
    THEN [path |-> ch.path, anchor |-> ch.anchor, appliesCleanly |-> ch.applies,
          isNoop |-> FALSE, type |-> "diagnosis"]
    ELSE [path |-> ch.path, anchor |-> ch.line, appliesCleanly |-> ch.applies,
          isNoop |-> ch.same,
          type |-> IF ~ch.same /\ ch.applies THEN "fix" ELSE "diagnosis"]

realFixes(changes) ==
    {i \in DOMAIN changes : ~changes[i].isNoop /\ changes[i].appliesCleanly}

autoSuggestionEligible(sol, changes) ==
    sol.confidence >= TAU /\ sol.risk = "low" /\ realFixes(changes) # {}

\* A mutant: the policy is computed, granted below the threshold.
PolicyBelowThreshold(sol, changes) ==
    [autoSuggestionEligible |->
        sol.confidence < TAU /\ sol.risk = "low" /\ realFixes(changes) # {}]

\* const policy = sol.policy?.autoSuggestionEligible !== undefined ? sol.policy : {...}
PolicyOf(sol, changes) ==
    IF sol.policy.autoSuggestionEligible \in BOOLEAN
    THEN sol.policy
    ELSE [autoSuggestionEligible |-> autoSuggestionEligible(sol, changes)]

\* One entry of reviewComments; kind stands for the body: "diagnostic" (source of
\* error), "suggestion" (a suggestion block), "hint" (comment-only fix)
ReviewComment(chg, policy) ==
    [path |-> chg.path,
     line |-> IF chg.anchor = 0 THEN 1 ELSE chg.anchor,
     kind |-> IF chg.isNoop \/ chg.type = "diagnosis" THEN "diagnostic"
              ELSE IF policy.autoSuggestionEligible /\ chg.appliesCleanly
              THEN "suggestion"
              ELSE "hint"]

\* normalizeSolution of a SolutionsReturn (hasExtras): the policy and the review
\* comments are kept
normalizeSolution(sol) ==
    [sol EXCEPT !.policy =
        IF sol.policy.autoSuggestionEligible \in BOOLEAN
        THEN sol.policy
        ELSE [autoSuggestionEligible |->
                 /\ sol.confidence >= TAU
                 /\ sol.risk = "low"
                 /\ \A i \in DOMAIN sol.changes : sol.changes[i].appliesCleanly]]

\* for (const ch of sol.changes) { ... validatedChanges.push(...) }
ValidateChanges ==
    /\ plPc = "parsed"
    /\ plValidated' = [i \in DOMAIN plSol.changes |-> ValidatedChange(plSol.changes[i])]
    /\ plPc' = "validated"
    /\ UNCHANGED <<plSol, plFinal, plStaged, plPrev, nonPolicyVars>>

\* policy, reviewComments, final
BuildReview ==
    /\ plPc = "validated"
    /\ LET policy == PolicyOf(plSol, plValidated)
       IN  plFinal' = <<[confidence |-> plSol.confidence, risk |-> plSol.risk,
                         changes |-> plValidated, policy |-> policy,
                         reviewComments |->
                             [i \in DOMAIN plValidated |->
                                 ReviewComment(plValidated[i], policy)]]>>
    /\ plPc' = "final"
    /\ UNCHANGED <<plSol, plValidated, plStaged, plPrev, nonPolicyVars>>

\* the actuator node: stageReviewOutboxFromSolution builds the payload's comments
StageReview ==
    /\ plPc = "final"
    /\ plStaged' = CapComments(normalizeSolution(plFinal[1]).reviewComments)
    /\ plPc' = "staged"
    /\ UNCHANGED <<plSol, plValidated, plFinal, plPrev, nonPolicyVars>>

\* The same output with a confidence raised from below TAU to TAU or more goes
\* through solveFailure again.
RaiseConfidence ==
    /\ plPc = "staged"
    /\ plPrev = <<>>
    /\ plSol.confidence < TAU
    /\ \E c \in Confidences :
          /\ c >= TAU
          /\ plSol' = [plSol EXCEPT !.confidence = c]
    /\ plPrev' = <<plFinal[1].policy>>
    /\ plPc' = "parsed"
    /\ plValidated' = <<>>
    /\ plFinal' = <<>>
    /\ plStaged' = <<>>
    /\ UNCHANGED nonPolicyVars

InitSolution ==
    /\ InitRun(NumRecords)
    /\ outbox = <<>>
    /\ InitStage
    /\ InitDispatch(Batches)
    /\ InitSolve
    /\ InitAnchor
    /\ plPc = "parsed"
    /\ plSol \in ParsedSolutions
    /\ plValidated = <<>>
    /\ plFinal = <<>>
    /\ plStaged = <<>>
    /\ plPrev = <<>>
    /\ InitComments
    /\ InitRetry
    /\ InitResolve

NextPolicy == ValidateChanges \/ BuildReview \/ StageReview \/ RaiseConfidence

SpecPolicy == InitSolution /\ [][NextPolicy]_vars

(***************************************************************************)
(* Claims about the policy and the review comments.                        *)
(***************************************************************************)
\* the changes of the result that are real fixes
RealFixes(changes) ==
    {i \in DOMAIN changes : changes[i].appliesCleanly /\ ~changes[i].isNoop}

AllClean(changes) == \A i \in DOMAIN changes : changes[i].appliesCleanly

\* C11: policy gate.  The final result has policy.autoSuggestionEligible = true
\* only when confidence >= TAU, risk is low, every change applies cleanly and the
\* validated change set holds at least one real fix.
C11_PolicyGate ==
    (plFinal # <<>> /\ plFinal[1].policy.autoSuggestionEligible) =>
        /\ plFinal[1].confidence >= TAU
        /\ plFinal[1].risk = "low"
        /\ AllClean(plFinal[1].changes)
        /\ RealFixes(plFinal[1].changes) # {}

\* the changes whose anchor did not resolve to a line of a file of the PR
Unresolved == {i \in DOMAIN plSol.changes : plSol.changes[i].line < 1}

Suggestions(comments) == {i \in DOMAIN comments : comments[i].kind = "suggestion"}

\* C12: never partial-inline.  If the validated change set holds a change that is
\* unresolved or does not apply cleanly, or holds only no-op changes, no comment
\* of the staged action carries a suggestion block.
C12_NeverPartialInline ==
    (/\ plPc = "staged"
     /\ \/ Unresolved # {}
        \/ ~AllClean(plValidated)
        \/ \A i \in DOMAIN plValidated : plValidated[i].isNoop)
        => Suggestions(plStaged) = {}

C14_NoUnresolvedComment ==
    plPc = "staged" => \A i \in DOMAIN plStaged : i \notin Unresolved

\* the entry of validatedChanges for the change validated in anResult, were
\* its validation.appliesCleanly `applies`
SnappedChange(applies) ==
    ValidatedChange([path |-> "a.ts", anchor |-> 0, line |-> anResult.line,
                     applies |-> applies, same |-> anResult.isNoop])

\* C39: a change the final snap found a line for is a no-op.  When the proposal
\* is a single line that equals, once normalized, a line within 2 of the
\* resolved line, the change is classified isNoop = true and type diagnosis
\* whatever its appliesCleanly: it is not counted as a real fix and its review
\* comment is a diagnostic, not a suggestion, whatever the policy.
C39_SnapIsNoop ==
    (anPc = "done" /\ anLine >= 1 /\ SingleLineProposal /\ SnapHits # {}) =>
        /\ anResult.isNoop
        /\ \A applies \in BOOLEAN :
              LET v == SnappedChange(applies)
              IN  /\ v.isNoop
                  /\ v.type = "diagnosis"
                  /\ realFixes(<<v>>) = {}
                  /\ \A eligible \in BOOLEAN :
                        ReviewComment(v, [autoSuggestionEligible |-> eligible]).kind
                            = "diagnostic"

\* The snap moved the anchor to a line that differs from the proposal in
\* blanks, and the change was found to be a no-op.
C39_Witness ==
    /\ anPc = "done" /\ anLine >= 1 /\ SingleLineProposal /\ SnapHits # {}
    /\ anResult.line # anLine
    /\ FileLines(anFull)[anResult.line] # anAfter
    /\ anResult.isNoop

\* C32: unresolved anchors.  A change of a file of the PR for which no line was
\* resolved is validated as a diagnostic with isNoop = false and is not among
\* the real fixes the policy computation counts, whatever appliesCleanly says.
C32_UnresolvedNotRealFix ==
    plPc # "parsed" =>
        \A i \in DOMAIN plValidated :
            (plSol.changes[i].path \in PrPaths /\ plSol.changes[i].line < 1) =>
                /\ plValidated[i].type = "diagnosis"
                /\ ~plValidated[i].isNoop
                /\ i \notin realFixes(plValidated)

(***************************************************************************)
(* SpecComments: what dispatchOneOutboundAction sends for the comments of  *)
(* one action: validateReviewComments against the files of the PR, the     *)
(* diagnostics folded into the body, and the createReview call.            *)
(***************************************************************************)
\* Comment k of a payload: the body tells the comments apart
DraftComments(k) ==
    [path : {"a.ts", "b.ts"}, line : 1..MaxDiffLine, body : {k}]

\* payload.comments: at most MAX_REVIEW_COMMENTS, as staged
PayloadComments ==
    UNION {{cs \in [1..n -> UNION {DraftComments(k) : k \in 1..n}] :
                \A k \in 1..n : cs[k].body = k} : n \in 0..MAX_REVIEW_COMMENTS}

\* a hunk header @@ -a,b +c,d @@: c and d
Hunks == [start : 1..MaxDiffLine, len : 0..2]

Patches == UNION {[1..n -> Hunks] : n \in 1..MaxHunks}

\* the largest end = start + Math.max(0, len) - 1 over the hunks (0 for null)
parseUnifiedDiffMaxRightLine(patch) ==
    LET ends == {patch[i].start + Max(0, patch[i].len) - 1 : i \in DOMAIN patch}
        max == CHOOSE e \in ends \cup {0} : \A x \in ends \cup {0} : x <= e
    IN  max

\* the test of the loop of validateReviewComments: c goes to valid
Anchorable(c, file, patch) ==
    /\ c.path = "a.ts" /\ file # "absent"
    /\ file = "patch"
    /\ LET maxRight == parseUnifiedDiffMaxRightLine(patch)
       IN  ~(maxRight = 0 \/ c.line < 1 \/ c.line > maxRight)

\* validateReviewComments: pulls.listFiles, then every comment goes to valid
\* (with side RIGHT) or to diagnostics
ValidateReviewComments ==
    /\ cmPc = "start"
    /\ cmValid' = SelectSeq(cmComments, LAMBDA c : Anchorable(c, cmFile, cmHunks))
    /\ cmDiagnostics' = SelectSeq(cmComments, LAMBDA c : ~Anchorable(c, cmFile, cmHunks))
    /\ cmPc' = "validated"
    /\ UNCHANGED <<cmComments, cmFile, cmHunks, cmReview, nonCommentVars>>

\* pulls.listFiles raised: the error leaves dispatchOneOutboundAction, no review
ListFilesRaises ==
    /\ cmPc = "start"
    /\ cmComments # <<>>
    /\ cmPc' = "failed"
    /\ UNCHANGED <<cmComments, cmFile, cmHunks, cmValid, cmDiagnostics, cmReview,
                   nonCommentVars>>

\* the bullets appended to the body and pulls.createReview({body, comments})
PostReview ==
    /\ cmPc = "validated"
    /\ cmReview' = <<[bullets |-> [i \in DOMAIN cmDiagnostics |->
                                      [path |-> cmDiagnostics[i].path,
                                       line |-> cmDiagnostics[i].line,
                                       body |-> cmDiagnostics[i].body]],
                      comments |-> [i \in DOMAIN cmValid |->
                                      [path |-> cmValid[i].path, line |-> cmValid[i].line,
                                       side |-> "RIGHT", body |-> cmValid[i].body]]]>>
    /\ cmPc' = "posted"
    /\ UNCHANGED <<cmComments, cmFile, cmHunks, cmValid, cmDiagnostics, nonCommentVars>>

InitAction ==
    /\ InitRun(NumRecords)
    /\ outbox = <<>>
    /\ InitStage
    /\ InitDispatch(Batches)
    /\ InitSolve
    /\ InitAnchor
    /\ InitPolicy
    /\ InitRetry
    /\ InitResolve
    /\ cmPc = "start"
    /\ cmComments \in PayloadComments
    /\ cmFile \in {"absent", "nopatch", "patch"}
    /\ cmHunks \in IF cmFile = "patch" THEN Patches ELSE {<<>>}
    /\ cmValid = <<>>
    /\ cmDiagnostics = <<>>
    /\ cmReview = <<>>

NextComments == ValidateReviewComments \/ ListFilesRaises \/ PostReview

SpecComments == InitAction /\ [][NextComments]_vars

(***************************************************************************)
(* Claims about the comments of a dispatched review.                       *)
(***************************************************************************)
\* the line is a right-side line of one of the file's hunks
InDiff(c) ==
    /\ c.path = "a.ts" /\ cmFile = "patch"
    /\ \E i \in DOMAIN cmHunks :
          cmHunks[i].start <= c.line /\ c.line < cmHunks[i].start + cmHunks[i].len

Sent(entries, c) == {i \in DOMAIN entries : entries[i].body = c.body}

\* C18: comment demotion, not dropping.  In the review of a dispatched action
\* every comment of the payload is there exactly once, inline or as a bullet of
\* the body, and it is inline only if its path is in the PR's diff and its line
\* within the diff.
C18_DemotedNotDropped ==
    cmPc = "posted" =>
        \A k \in DOMAIN cmComments :
            LET c == cmComments[k]
                inline == Sent(cmReview[1].comments, c)
                bullets == Sent(cmReview[1].bullets, c)
            IN  /\ Cardinality(inline) + Cardinality(bullets) = 1
                /\ inline # {} => InDiff(c)

(***************************************************************************)
(* SpecRetry: one call of downloadLogsZipWithRetry (route.ts).  An error   *)
(* is named by its HTTP status or its code; "error" is an Error without    *)
(* either (no workflow run found, empty archive).                          *)
(***************************************************************************)
RetryErrors == {"http429", "http500", "http502", "http503", "http504", "http404",
                "http403", "ETIMEDOUT", "ECONNRESET", "EAI_AGAIN", "error"}

\* Math.floor(Math.random() * 250): the ends of the range and a value inside
Jitters == {0, 100, 249}

\* one pass of the try block: the run is found and the archive downloaded, or
\* the catch: rethrow when the error is not transient or the attempt was the
\* last, compute the backoff otherwise
Attempt ==
    /\ dlPc = "try"
    /\ dlAttempt <= LOG_MAX_RETRIES
    /\ LET e == dlOutcomes[dlAttempt]
       IN  IF e = "ok"
           THEN /\ dlPc' = "returned"
                /\ UNCHANGED <<lastErr, backoff>>
           ELSE LET transient == isTransientGitHubError(e)
                    isLast == dlAttempt = LOG_MAX_RETRIES
                IN  /\ lastErr' = e
                    /\ IF ~transient \/ isLast
                       THEN /\ dlPc' = "raised"
                            /\ UNCHANGED backoff
                       ELSE /\ dlPc' = "sleep"
                            /\ \E jitter \in Jitters :
                                 backoff' = LOG_RETRY_BASE_MS * 2^(dlAttempt - 1) + jitter
    /\ UNCHANGED <<dlOutcomes, dlAttempt, dlSleeps, nonRetryVars>>

\* await sleep(backoff), then attempt++
Sleep ==
    /\ dlPc = "sleep"
    /\ dlSleeps' = Append(dlSleeps, backoff)
    /\ dlAttempt' = dlAttempt + 1
    /\ dlPc' = "try"
    /\ UNCHANGED <<dlOutcomes, lastErr, backoff, nonRetryVars>>

\* the call starts with attempt = 1; what each attempt will meet is drawn here
InitDownload ==
    /\ InitRun(NumRecords)
    /\ outbox = <<>>
    /\ InitStage
    /\ InitDispatch(Batches)
    /\ InitSolve
    /\ InitAnchor
    /\ InitPolicy
    /\ InitComments
    /\ InitResolve
    /\ dlPc = "try"
    /\ dlOutcomes \in [1..LOG_MAX_RETRIES -> RetryErrors \cup {"ok"}]
    /\ dlAttempt = 1
    /\ lastErr = "null"
    /\ backoff = 0
    /\ dlSleeps = <<>>

NextRetry == Attempt \/ Sleep

SpecRetry == InitDownload /\ [][NextRetry]_vars

\* the errors the retry rule names: HTTP 429, 500, 502, 503, 504 and 404,
\* connection reset and timeouts (of the connection or of the DNS lookup)
TransientErrors == {"http429", "http500", "http502", "http503", "http504", "http404",
                   "ECONNRESET", "ETIMEDOUT", "EAI_AGAIN"}

\* C30: log-download retry.  At most LOG_MAX_RETRIES attempts are made, and one
\* delay was slept before each attempt but the first, the delay before attempt
\* k + 1 being LOG_RETRY_BASE_MS * 2^(k-1) plus a jitter in [0, 250).  A failed
\* attempt is followed by another exactly when its error is transient and it
\* was not the last; otherwise the error is raised at once, with no delay: a
\* non-transient error is raised by the attempt that met it.  The call ends as
\* the function downloadLogsZipWithRetry of the graph-run model says.
C30_LogDownloadRetry ==
    /\ [](/\ dlAttempt \in 1..LOG_MAX_RETRIES
          /\ Len(dlSleeps) = dlAttempt - 1
          /\ \A k \in DOMAIN dlSleeps :
                /\ dlSleeps[k] - LOG_RETRY_BASE_MS * 2^(k - 1) \in 0..249
                /\ dlOutcomes[k] \in TransientErrors
          /\ dlPc = "raised" =>
                /\ lastErr = dlOutcomes[dlAttempt]
                /\ lastErr \notin TransientErrors \/ dlAttempt = LOG_MAX_RETRIES
          /\ dlPc = "returned" => dlOutcomes[dlAttempt] = "ok"
          /\ dlPc \in {"returned", "raised"} =>
                downloadLogsZipWithRetry(dlOutcomes, 1) =
                    [ok |-> dlPc = "returned", attempts |-> dlAttempt])
    /\ [][(dlPc = "try" /\ dlOutcomes[dlAttempt] # "ok") =>
            IF dlOutcomes[dlAttempt] \in TransientErrors /\ dlAttempt < LOG_MAX_RETRIES
            THEN dlPc' = "sleep"
            ELSE dlPc' = "raised" /\ dlSleeps' = dlSleeps]_vars

\* Two attempts met transient errors of both kinds and the delays were slept;
\* the last attempt met a transient error again and it was raised.
C30_Witness ==
    /\ dlPc = "raised"
    /\ dlAttempt = LOG_MAX_RETRIES
    /\ Len(dlSleeps) = LOG_MAX_RETRIES - 1
    /\ dlOutcomes[1] = "http404" /\ dlOutcomes[2] = "ECONNRESET"
    /\ dlOutcomes[LOG_MAX_RETRIES] \in TransientErrors
    /\ dlSleeps[1] = LOG_RETRY_BASE_MS /\ dlSleeps[2] = 2 * LOG_RETRY_BASE_MS + 249
====
